---- MODULE Spec2Model ----
(***************************************************************************)
(* Model of the Zava retail dataset generators.                            *)
(*                                                                         *)
(*   variant = "orm"    data/src/zava_shop_datagenerator/__main__.py       *)
(*                      (SQLAlchemy, volume-driven orders, per-store SKU   *)
(*                      lists from stores_reference.json)                  *)
(*   variant = "prep"   data/data_prep/generate_zava_sqlite.py             *)
(*                      (sqlite3, customer-driven orders, full cross       *)
(*                      product inventory)                                 *)
(*                                                                         *)
(* A run is one invocation of the command line: the reference documents    *)
(* are loaded at import, main() dispatches on the mode, and the stages of   *)
(* a generation follow one another until main() returns or an exception    *)
(* reaches its handler.                                                     *)
(*                                                                         *)
(* Amounts of money are integers counted in UNIT = 1/10000 cent, so that   *)
(* a price in cents times a jitter in percent times a discount in percent  *)
(* divided by 100 is still exact.                                          *)
(***************************************************************************)
EXTENDS Integers, Sequences, FiniteSets, TLC

VARIABLES
    variant,        \* which generator runs: "orm" or "prep"
    stores,         \* reference data: sequence of store configurations
    products_list,  \* reference data: the product catalog, in file order
    supplier_data,  \* reference data: sequence of supplier ids
    args,           \* command line: [num_customers, num_orders, show_stats, embeddings_only]
    env,            \* environment: [documents_ok, fault, prior]
    db,             \* the storage artifact: one sequence of rows per table
    db_exists,      \* the storage artifact exists as a file
    pc,             \* position of the run in main()
    log,            \* the stages of this run that completed, in order
    exit_status,    \* exit status of the run, NoStatus while it runs
    run,            \* 1 = first generation, 2 = the second, independent one
    inv_sig,        \* inventory signature taken from the first artifact
    calls,          \* inventory server: the calls of transfer_stock, by request
    writer,         \* inventory server: the call whose session holds the write lock, or 0
    inventory0      \* inventory server: the Inventory table when the server started

vars == <<variant, stores, products_list, supplier_data, args, env, db, db_exists,
          pc, log, exit_status, run, inv_sig, calls, writer, inventory0>>

refdata == <<variant, stores, products_list, supplier_data, args, env>>

\* the state of the inventory server, which no step of a generator touches
server == <<calls, writer, inventory0>>

----------------------------------------------------------------------------
(* Bounds of the model *)

MaxStores    == 2
MaxProducts  == 2
MaxSkuList   == 2
MaxCustomers == 2
MaxOrders    == 1
MaxItems     == 1
batch_size   == 1     \* rows of one chunk of a bulk insert (1000 in the code)

----------------------------------------------------------------------------
(* Generic helpers *)

Range(s) == {s[i] : i \in DOMAIN s}

SeqsUpTo(S, n) == UNION {[1..k -> S] : k \in 0..n}

Min(a, b) == IF a <= b THEN a ELSE b

NoDup(s) == \A i, j \in DOMAIN s : i # j => s[i] # s[j]

\* dict.get on a table read back into a mapping: the value of the LAST row
\* with the key wins ({k: v for row in rows}); 0 stands for "not found".
LastIndex(s, P(_)) ==
    IF \E i \in DOMAIN s : P(s[i])
    THEN CHOOSE i \in DOMAIN s : P(s[i]) /\ \A j \in DOMAIN s : P(s[j]) => j <= i
    ELSE 0

----------------------------------------------------------------------------
(* Value universes of the reference data *)

NULL   == -1      \* JSON null / SQL NULL in an integer column
NoHint == -1      \* catalog entry without a "stock_level" key

StoreNames    == <<"s1", "s2", "s3">>
CategoryNames == <<"Garden", "Tools">>      \* in sorted() order
TypeNames     == <<"Hand", "Power">>        \* in sorted() order
Skus          == {"A", "B"}
ListedSkus    == Skus \cup {"X"}            \* "X" is in no catalog

PriceDraws    == {3, 999, 1000}             \* catalog prices, in cents
SupplierIds   == {1, 2}
StockHints    == {NoHint, 7}

----------------------------------------------------------------------------
(* Money: fixed point, CENT units to the cent *)

CENT == 10000

\* round(x, 2): to the nearest cent, an exact half to the even cent
Round2(x) ==
    LET q == x \div CENT
        r == x % CENT
    IN  IF 2 * r < CENT THEN q * CENT
        ELSE IF 2 * r > CENT THEN (q + 1) * CENT
        ELSE IF q % 2 = 0 THEN q * CENT ELSE (q + 1) * CENT

\* x * p / 100 for an amount x that is a multiple of 100 units
Percent(x, p) == (x \div 100) * p

----------------------------------------------------------------------------
(* The storage artifact *)

EmptyDB ==
    [stores |-> <<>>, categories |-> <<>>, product_types |-> <<>>,
     suppliers |-> <<>>, products |-> <<>>, customers |-> <<>>,
     inventory |-> <<>>, orders |-> <<>>, order_items |-> <<>>,
     approvers |-> <<>>, company_policies |-> <<>>,
     supplier_contracts |-> <<>>, supplier_performance |-> <<>>,
     product_image_embeddings |-> <<>>, product_description_embeddings |-> <<>>]

UniqueOn(rows, key(_)) ==
    \A i, j \in DOMAIN rows : i # j => key(rows[i]) # key(rows[j])

\* Constraints declared by the schema. The sqlite3 generator declares them in
\* its CREATE TABLE statements; the ORM generator takes them from the model
\* classes of zava_shop_shared.models.sqlite.
StoreKey(r)     == r.store_name
CategoryKey(r)  == r.category_name
ProductKey(r)   == r.sku
CustomerKey(r)  == r.email
InventoryKey(r) == <<r.store_id, r.product_id>>
SupplierKey(r)  == r.supplier_id

\* mutant: the products table declared without UNIQUE on sku
products_not_unique(rows) == TRUE

stores_unique(rows)     == UniqueOn(rows, StoreKey)
categories_unique(rows) == UniqueOn(rows, CategoryKey)
products_unique(rows)   == UniqueOn(rows, ProductKey)
customers_unique(rows)  == UniqueOn(rows, CustomerKey)
inventory_unique(rows)  == UniqueOn(rows, InventoryKey)

Store_unique(rows)      == UniqueOn(rows, StoreKey)
Category_unique(rows)   == UniqueOn(rows, CategoryKey)
Product_unique(rows)    == UniqueOn(rows, ProductKey)
Customer_unique(rows)   == UniqueOn(rows, CustomerKey)
Inventory_unique(rows)  == UniqueOn(rows, InventoryKey)
Supplier_unique(rows)   == UniqueOn(rows, SupplierKey)

----------------------------------------------------------------------------
(* Reading tables back into mappings *)

RECURSIVE Flatten(_)
Flatten(ss) == IF ss = <<>> THEN <<>> ELSE Head(ss) \o Flatten(Tail(ss))

\* {s.store_name: s.store_id for s in stores_in_db}.get(name); 0 = None
store_name_to_id(rows, name) ==
    LET i == LastIndex(rows, LAMBDA r : r.store_name = name)
    IN  IF i = 0 THEN 0 ELSE rows[i].store_id

\* {cat.category_name: cat.category_id}[name]
category_mapping(rows, name) ==
    LET i == LastIndex(rows, LAMBDA r : r.category_name = name)
    IN  IF i = 0 THEN 0 ELSE rows[i].category_id

\* type_mapping.get((category_id, type_name)); 0 = None
type_mapping(rows, category_id, type_name) ==
    LET i == LastIndex(rows, LAMBDA r : r.category_id = category_id /\ r.type_name = type_name)
    IN  IF i = 0 THEN 0 ELSE rows[i].type_id

\* {p.sku: p.product_id for p in products_in_db}.get(sku); 0 = None
sku_to_product_id(rows, sku) ==
    LET i == LastIndex(rows, LAMBDA r : r.sku = sku)
    IN  IF i = 0 THEN 0 ELSE rows[i].product_id

\* {product["sku"]: product.get("stock_level", 25)}.get(sku, 25)
DefaultStockLevel == 25
sku_to_stock_level(catalog, sku) ==
    LET i == LastIndex(catalog, LAMBDA e : e.sku = sku)
    IN  IF i = 0 \/ catalog[i].stock_level = NoHint THEN DefaultStockLevel
        ELSE catalog[i].stock_level

\* rows of a batch get consecutive rowids after the rows already stored
WithIds(old, objs, field) ==
    [i \in 1..Len(objs) |-> [objs[i] EXCEPT ![field] = Len(old) + i]]

----------------------------------------------------------------------------
(* Stages of the ORM generator (__main__.py) *)

NoStatus == -1                              \* the process has not exited
NoFault  == [insert |-> "none", chunk |-> 0]  \* no write of the run fails

\* mutant: the handler of main() logs the exception and returns
StageOutcome_exit_zero(stage) ==
    /\ log' = IF pc' = "failed" THEN log ELSE Append(log, stage)
    /\ exit_status' = IF pc' \in {"failed", "done"} THEN 0 ELSE exit_status

\* main(): a stage that returns has completed; an exception of a stage
\* reaches the handler of main(), which exits with status 1; when the last
\* stage has returned, main() returns and the process exits with status 0
StageOutcome(stage) ==
    /\ log' = IF pc' = "failed" THEN log ELSE Append(log, stage)
    /\ exit_status' = IF pc' = "failed" THEN 1 ELSE IF pc' = "done" THEN 0 ELSE exit_status

\* the write of a chunk of the bulk insert raises; the chunks are those of
\* range(0, len(objects), batch_size)
BulkFails(insert, objects) ==
    /\ env.fault.insert = insert
    /\ env.fault.chunk \in 1..((Len(objects) + batch_size - 1) \div batch_size)

\* mutant: every chunk is committed as it is written
bulk_insert_commit_per_chunk(rows, objects, insert) ==
    IF BulkFails(insert, objects)
    THEN rows \o SubSeq(objects, 1, (env.fault.chunk - 1) * batch_size)
    ELSE rows \o objects

\* mutant: the loop over the chunks ends after the first chunk
bulk_insert_first_chunk_only(rows, objects, insert) ==
    IF BulkFails(insert, objects) THEN rows
    ELSE rows \o SubSeq(objects, 1, Min(Len(objects), batch_size))

\* bulk_insert_objects: the chunks are flushed one by one and committed
\* together; an exception rolls all of them back
bulk_insert_objects(rows, objects, insert) ==
    IF BulkFails(insert, objects) THEN rows ELSE rows \o objects

\* except Exception: session.rollback(); raise ... sys.exit(1)
Abort ==
    /\ pc' = "failed"
    /\ UNCHANGED db

store_objects ==
    [i \in 1..Len(stores) |->
        [store_id |-> 0, store_name |-> stores[i].store_name,
         rls_user_id |-> stores[i].rls_user_id]]

insert_stores ==
    /\ variant = "orm"
    /\ pc = "insert_stores"
    /\ LET rows == db.stores \o WithIds(db.stores, store_objects, "store_id")
       IN  IF \E i \in DOMAIN stores : stores[i].rls_user_id = ""
           THEN Abort
           ELSE IF ~Store_unique(rows)
           THEN Abort
           ELSE /\ db' = [db EXCEPT !.stores = rows]
                /\ pc' = "insert_categories"
    /\ StageOutcome("insert_stores")
    /\ UNCHANGED <<refdata, server, db_exists, run, inv_sig>>

\* sorted(set(product["category"] for product in products_list))
category_objects ==
    LET categories == {products_list[i].category : i \in DOMAIN products_list}
        names == SelectSeq(CategoryNames, LAMBDA c : c \in categories)
    IN  [i \in 1..Len(names) |-> [category_id |-> 0, category_name |-> names[i]]]

insert_categories ==
    /\ variant = "orm"
    /\ pc = "insert_categories"
    /\ LET rows == db.categories \o WithIds(db.categories, category_objects, "category_id")
       IN  IF ~Category_unique(rows)
           THEN Abort
           ELSE /\ db' = [db EXCEPT !.categories = rows]
                /\ pc' = "insert_product_types"
    /\ StageOutcome("insert_categories")
    /\ UNCHANGED <<refdata, server, db_exists, run, inv_sig>>

\* sorted(type_set): by category, then by subcategory
SortedPairs ==
    Flatten([c \in 1..Len(CategoryNames) |->
                [t \in 1..Len(TypeNames) |-> <<CategoryNames[c], TypeNames[t]>>]])

product_type_objects ==
    LET type_set == {<<products_list[i].category, products_list[i].subcategory>> :
                        i \in DOMAIN products_list}
        pairs == SelectSeq(SortedPairs, LAMBDA p : p \in type_set)
    IN  [i \in 1..Len(pairs) |->
            [type_id |-> 0,
             category_id |-> category_mapping(db.categories, pairs[i][1]),
             type_name |-> pairs[i][2]]]

insert_product_types ==
    /\ variant = "orm"
    /\ pc = "insert_product_types"
    /\ db' = [db EXCEPT !.product_types =
                 db.product_types \o WithIds(db.product_types, product_type_objects, "type_id")]
    /\ pc' = "insert_suppliers"
    /\ StageOutcome("insert_product_types")
    /\ UNCHANGED <<refdata, server, db_exists, run, inv_sig>>

supplier_objects ==
    [i \in 1..Len(supplier_data) |-> [supplier_id |-> supplier_data[i]]]

\* for contract in supplier["contracts"]: every supplier of the model
\* carries one contract
contract_objects ==
    [i \in 1..Len(supplier_data) |->
        [supplier_id |-> supplier_data[i], contract_number |-> supplier_data[i]]]

\* for supplier_obj in suppliers_in_db: for months_ago in range(0, months),
\* with months drawn from random.randint(3, 7): 3 here
performance_objects(suppliers) ==
    Flatten([i \in 1..Len(suppliers) |->
                [m \in 1..3 |->
                    [supplier_id |-> suppliers[i].supplier_id, months_ago |-> m - 1]]])

\* mutant: the three bulk inserts of the stage in one transaction
insert_suppliers_one_transaction ==
    /\ variant = "orm"
    /\ pc = "insert_suppliers"
    /\ LET rows == bulk_insert_objects(db.suppliers, supplier_objects, "suppliers")
       IN  IF \/ ~Supplier_unique(rows)
              \/ BulkFails("suppliers", supplier_objects)
              \/ BulkFails("supplier_contracts", contract_objects)
              \/ BulkFails("supplier_performance", performance_objects(rows))
           THEN Abort
           ELSE /\ db' = [db EXCEPT
                            !.suppliers = rows,
                            !.supplier_contracts = db.supplier_contracts \o contract_objects,
                            !.supplier_performance =
                                db.supplier_performance \o performance_objects(rows)]
                /\ pc' = "insert_products"
    /\ StageOutcome("insert_suppliers")
    /\ UNCHANGED <<refdata, server, db_exists, run, inv_sig>>

\* three bulk inserts, each committed on its own: the suppliers, their
\* contracts (if any), the performance records of the suppliers in the table
insert_suppliers ==
    /\ variant = "orm"
    /\ pc = "insert_suppliers"
    /\ LET rows == bulk_insert_objects(db.suppliers, supplier_objects, "suppliers")
           contracts == bulk_insert_objects(db.supplier_contracts, contract_objects,
                                            "supplier_contracts")
           performance == bulk_insert_objects(db.supplier_performance,
                                              performance_objects(rows), "supplier_performance")
       IN  IF ~Supplier_unique(rows) \/ BulkFails("suppliers", supplier_objects)
           THEN Abort
           ELSE IF BulkFails("supplier_contracts", contract_objects)
           THEN /\ db' = [db EXCEPT !.suppliers = rows]
                /\ pc' = "failed"
           ELSE IF BulkFails("supplier_performance", performance_objects(rows))
           THEN /\ db' = [db EXCEPT !.suppliers = rows, !.supplier_contracts = contracts]
                /\ pc' = "failed"
           ELSE /\ db' = [db EXCEPT !.suppliers = rows, !.supplier_contracts = contracts,
                                    !.supplier_performance = performance]
                /\ pc' = "insert_products"
    /\ StageOutcome("insert_suppliers")
    /\ UNCHANGED <<refdata, server, db_exists, run, inv_sig>>

\* mutant: the type is looked up by its name alone
product_type_by_name(product) ==
    LET i == LastIndex(db.product_types, LAMBDA r : r.type_name = product.subcategory)
    IN  IF i = 0 THEN 0 ELSE db.product_types[i].type_id

\* type_mapping.get((category_id, product["subcategory"]))
product_type_id(product) ==
    type_mapping(db.product_types,
                 category_mapping(db.categories, product.category),
                 product.subcategory)

\* mutant: the cost is not rounded to cents
product_object_cost_unrounded(product) ==
    LET base_price == product.price * CENT
    IN  [product_id |-> 0, sku |-> product.sku,
         category_id |-> category_mapping(db.categories, product.category),
         type_id |-> product_type_id(product),
         supplier_id |-> product.supplier_id,
         cost |-> Percent(base_price, 67),
         base_price |-> base_price]

\* base_price = float(price); cost = round(base_price * 0.67, 2)
product_object(product) ==
    LET base_price == product.price * CENT
    IN  [product_id |-> 0, sku |-> product.sku,
         category_id |-> category_mapping(db.categories, product.category),
         type_id |-> product_type_id(product),
         supplier_id |-> product.supplier_id,
         cost |-> Round2(Percent(base_price, 67)),
         base_price |-> base_price]

product_objects ==
    LET kept == SelectSeq(products_list, LAMBDA product : product_type_id(product) # 0)
    IN  [i \in 1..Len(kept) |-> product_object(kept[i])]

insert_products ==
    /\ variant = "orm"
    /\ pc = "insert_products"
    /\ LET rows == db.products \o WithIds(db.products, product_objects, "product_id")
       IN  IF ~Product_unique(rows)
           THEN Abort
           ELSE /\ db' = [db EXCEPT !.products = rows]
                /\ pc' = "populate_product_embeddings"
    /\ StageOutcome("insert_products")
    /\ UNCHANGED <<refdata, server, db_exists, run, inv_sig>>

----------------------------------------------------------------------------
(* Embeddings.  A catalog entry carries a vector of a kind, or <<>> where  *)
(* the key is missing or its list is empty; the table holds the vector as  *)
(* its JSON text.                                                          *)

\* product_id is the primary key of both embedding tables
EmbeddingKey(r) == r.product_id

ProductImageEmbedding_unique(rows)       == UniqueOn(rows, EmbeddingKey)
ProductDescriptionEmbedding_unique(rows) == UniqueOn(rows, EmbeddingKey)

\* mutant: an image row for every catalog entry with a product
image_embedding_objects_unconditional ==
    LET found == SelectSeq(products_list, LAMBDA product :
                    sku_to_product_id(db.products, product.sku) # 0)
    IN  [i \in 1..Len(found) |->
            [product_id |-> sku_to_product_id(db.products, found[i].sku),
             image_embedding |-> found[i].image_embedding]]

\* for product in products_list: sku_to_id.get(sku); if product.get("image_embedding")
image_embedding_objects ==
    LET found == SelectSeq(products_list, LAMBDA product :
                    /\ sku_to_product_id(db.products, product.sku) # 0
                    /\ product.image_embedding # <<>>)
    IN  [i \in 1..Len(found) |->
            [product_id |-> sku_to_product_id(db.products, found[i].sku),
             image_embedding |-> found[i].image_embedding]]

\* for product in products_list: sku_to_id.get(sku); if product.get("description_embedding")
description_embedding_objects ==
    LET found == SelectSeq(products_list, LAMBDA product :
                    /\ sku_to_product_id(db.products, product.sku) # 0
                    /\ product.description_embedding # <<>>)
    IN  [i \in 1..Len(found) |->
            [product_id |-> sku_to_product_id(db.products, found[i].sku),
             description_embedding |-> found[i].description_embedding]]

\* two bulk inserts, each committed on its own: the image rows, then the
\* description rows
populate_product_embeddings ==
    /\ variant = "orm"
    /\ pc = "populate_product_embeddings"
    /\ LET image_rows == db.product_image_embeddings \o image_embedding_objects
           description_rows == db.product_description_embeddings \o description_embedding_objects
       IN  IF \/ ~ProductImageEmbedding_unique(image_rows)
              \/ BulkFails("product_image_embeddings", image_embedding_objects)
           THEN Abort
           ELSE IF \/ ~ProductDescriptionEmbedding_unique(description_rows)
                   \/ BulkFails("product_description_embeddings", description_embedding_objects)
           THEN /\ db' = [db EXCEPT !.product_image_embeddings = image_rows]
                /\ pc' = "failed"
           ELSE /\ db' = [db EXCEPT !.product_image_embeddings = image_rows,
                                    !.product_description_embeddings = description_rows]
                /\ pc' = "insert_customers"
    /\ StageOutcome("populate_product_embeddings")
    /\ UNCHANGED <<refdata, server, db_exists, run, inv_sig>>

----------------------------------------------------------------------------
(* Customers *)

FirstNameDraws == {<<"A", "'">>, <<"a">>}   \* what fake.first_name() returns
LastNameDraws  == {<<"a">>}                 \* what fake.last_name() returns

Digits == <<"0", "1", "2", "3", "4", "5", "6", "7", "8", "9">>

\* str(i)
RECURSIVE Str(_)
Str(i) == IF i < 10 THEN <<Digits[i + 1]>> ELSE Str(i \div 10) \o <<Digits[(i % 10) + 1]>>

\* name.replace("'", "")
StripQuote(name) == SelectSeq(name, LAMBDA c : c # "'")

\* name.lower()
Lower(name) == [k \in 1..Len(name) |-> IF name[k] = "A" THEN "a" ELSE name[k]]

\* mutant: the email without the sequence number
Email_without_number(first_name, last_name, i) ==
    Lower(first_name) \o <<".">> \o Lower(last_name) \o <<"@example.com">>

\* f"{first_name.lower()}.{last_name.lower()}.{i}@example.com"
Email(first_name, last_name, i) ==
    Lower(first_name) \o <<".">> \o Lower(last_name) \o <<".">> \o Str(i) \o <<"@example.com">>

\* random.choices(store_ids, weights=weights, k=1)[0]: an entry of positive
\* weight; raises ValueError when the weights sum to zero
WeightTotal == 
    LET RECURSIVE Sum(_)
        Sum(i) == IF i = 0 THEN 0 ELSE stores[i].customer_distribution_weight + Sum(i - 1)
    IN  Sum(Len(stores))

\* mutant: the weights are ignored, every store can be drawn
weighted_store_choice_unweighted ==
    {stores[i].store_name : i \in DOMAIN stores}

weighted_store_choice ==
    {stores[i].store_name : i \in {k \in DOMAIN stores : stores[k].customer_distribution_weight > 0}}

\* mutant: the default of the lookup is taken whatever the name
primary_store_id_default(name) == db.stores[1].store_id

\* primary_store_id = store_name_to_id.get(name, stores_in_db[0].store_id)
primary_store_id(name) ==
    IF store_name_to_id(db.stores, name) # 0
    THEN store_name_to_id(db.stores, name)
    ELSE db.stores[1].store_id

customer_object(i, first, last, store) ==
    [customer_id |-> 0,
     first_name |-> StripQuote(first), last_name |-> StripQuote(last),
     email |-> Email(StripQuote(first), StripQuote(last), i),
     primary_store_id |-> primary_store_id(store)]

insert_customers ==
    /\ variant = "orm"
    /\ pc = "insert_customers"
    /\ IF db.stores = <<>>
       THEN Abort
       ELSE IF args.num_customers > 0 /\ WeightTotal = 0
       THEN Abort
       ELSE \E draw \in [1..args.num_customers ->
                            [first : FirstNameDraws, last : LastNameDraws, store : weighted_store_choice]] :
               LET customer_objects ==
                       [i \in 1..args.num_customers |->
                           customer_object(i, draw[i].first, draw[i].last, draw[i].store)]
                   written == WithIds(db.customers, customer_objects, "customer_id")
                   rows == bulk_insert_objects(db.customers, written, "customers")
               IN  IF ~Customer_unique(db.customers \o written)
                   THEN Abort
                   ELSE IF BulkFails("customers", written)
                   THEN /\ db' = [db EXCEPT !.customers = rows]
                        /\ pc' = "failed"
                   ELSE /\ db' = [db EXCEPT !.customers = rows]
                        /\ pc' = "insert_inventory"
    /\ StageOutcome("insert_customers")
    /\ UNCHANGED <<refdata, server, db_exists, run, inv_sig>>

----------------------------------------------------------------------------
(* Inventory *)

\* mutant: a stock level drawn at random in every run, as the sqlite3
\* generator draws it; the draw follows the run's first random draw
stock_level_random(sku) ==
    IF db.customers # <<>> /\ db.customers[1].first_name = <<"a">> THEN 10 ELSE 200

\* stock_level = sku_to_stock_level.get(sku, 25), the catalog's hint
stock_level_of(sku) == sku_to_stock_level(products_list, sku)

\* mutant: a store without a SKU list is given every product
store_inventory_cross(store_config) ==
    LET db_store_id == store_name_to_id(db.stores, store_config.store_name)
        product_skus == IF store_config.has_product_skus
                        THEN store_config.product_skus
                        ELSE [k \in 1..Len(db.products) |-> db.products[k].sku]
        found == SelectSeq(product_skus, LAMBDA sku : sku_to_product_id(db.products, sku) # 0)
    IN  IF db_store_id = 0 THEN <<>>
        ELSE [k \in 1..Len(found) |->
                 [store_id |-> db_store_id,
                  product_id |-> sku_to_product_id(db.products, found[k]),
                  stock_level |-> stock_level_of(found[k])]]

\* the rows of one store: one per listed SKU that has a Product row
store_inventory_objects(store_config) ==
    LET db_store_id == store_name_to_id(db.stores, store_config.store_name)
        product_skus == IF store_config.has_product_skus
                        THEN store_config.product_skus ELSE <<>>
        found == SelectSeq(product_skus, LAMBDA sku : sku_to_product_id(db.products, sku) # 0)
    IN  IF db_store_id = 0 THEN <<>>
        ELSE [k \in 1..Len(found) |->
                 [store_id |-> db_store_id,
                  product_id |-> sku_to_product_id(db.products, found[k]),
                  stock_level |-> stock_level_of(found[k])]]

inventory_objects ==
    Flatten([i \in 1..Len(stores) |-> store_inventory_objects(stores[i])])

insert_inventory ==
    /\ variant = "orm"
    /\ pc = "insert_inventory"
    /\ LET rows == db.inventory \o inventory_objects
       IN  IF ~Inventory_unique(rows)
           THEN Abort
           ELSE /\ db' = [db EXCEPT !.inventory = rows]
                /\ pc' = "insert_orders_and_items"
    /\ StageOutcome("insert_inventory")
    /\ UNCHANGED <<refdata, server, db_exists, run, inv_sig>>

----------------------------------------------------------------------------
(* Orders and order items, volume-driven (ORM generator) *)

QuantityDraws   == {1, 3}                     \* drawn from random.randint(1, 10)
\* mutant: an order may draw no item
ItemCountDraws_from_zero == 0..Min(5, MaxItems)
ItemCountDraws  == 1..Min(5, MaxItems)        \* drawn from random.randint(1, 5)
DiscountChoices == {0, 5, 10, 15}             \* random.choice([0, 0, 0, 5, 10, 15])

\* mutant: the total forgets the discount
order_item_full_price(order_id, store_id, product, quantity, discount_percent) ==
    LET unit_price == product.base_price
        discount_amount == Round2(Percent(unit_price * quantity, discount_percent))
    IN  [order_item_id |-> 0, order_id |-> order_id, store_id |-> store_id,
         product_id |-> product.product_id, quantity |-> quantity,
         unit_price |-> unit_price, discount_percent |-> discount_percent,
         discount_amount |-> discount_amount,
         total_amount |-> Round2(unit_price * quantity)]

\* mutant: the discount is taken per quantity unit only (quantity dropped)
order_item_unit_discount(order_id, store_id, product, quantity, discount_percent) ==
    LET unit_price == product.base_price
        discount_amount == Round2(Percent(unit_price, discount_percent))
        total_amount == Round2((unit_price * quantity) - discount_amount)
    IN  [order_item_id |-> 0, order_id |-> order_id, store_id |-> store_id,
         product_id |-> product.product_id, quantity |-> quantity,
         unit_price |-> unit_price, discount_percent |-> discount_percent,
         discount_amount |-> discount_amount, total_amount |-> total_amount]

\* mutant: the percentage is divided by 10 instead of 100
order_item_tenfold_discount(order_id, store_id, product, quantity, discount_percent) ==
    LET unit_price == product.base_price
        discount_amount == Round2(10 * Percent(unit_price * quantity, discount_percent))
        total_amount == Round2((unit_price * quantity) - discount_amount)
    IN  [order_item_id |-> 0, order_id |-> order_id, store_id |-> store_id,
         product_id |-> product.product_id, quantity |-> quantity,
         unit_price |-> unit_price, discount_percent |-> discount_percent,
         discount_amount |-> discount_amount, total_amount |-> total_amount]

\* one order item of the volume-driven mode
order_item_object(order_id, store_id, product, quantity, discount_percent) ==
    LET unit_price == product.base_price
        discount_amount == Round2(Percent(unit_price * quantity, discount_percent))
        total_amount == Round2((unit_price * quantity) - discount_amount)
    IN  [order_item_id |-> 0, order_id |-> order_id, store_id |-> store_id,
         product_id |-> product.product_id, quantity |-> quantity,
         unit_price |-> unit_price, discount_percent |-> discount_percent,
         discount_amount |-> discount_amount, total_amount |-> total_amount]

ItemDraw(products) ==
    [product : DOMAIN products, quantity : QuantityDraws, discount_percent : DiscountChoices]

ItemDraws(products) ==
    UNION {[1..n -> ItemDraw(products)] : n \in ItemCountDraws}

insert_orders_and_items ==
    /\ variant = "orm"
    /\ pc = "insert_orders_and_items"
    /\ IF db.customers = <<>>
       THEN Abort
       ELSE LET customer_ids == {db.customers[i].customer_id : i \in DOMAIN db.customers}
                store_ids == {db.stores[i].store_id : i \in DOMAIN db.stores}
                n == args.num_orders
            IN  \E odraw \in [1..n -> [customer_id : customer_ids, store_id : store_ids]] :
                  LET order_objects ==
                          [i \in 1..n |-> [order_id |-> 0, customer_id |-> odraw[i].customer_id,
                                           store_id |-> odraw[i].store_id]]
                      orders == db.orders \o WithIds(db.orders, order_objects, "order_id")
                      \* the ids of the last num_orders orders, ascending
                      order_ids == [i \in 1..n |-> orders[Len(orders) - n + i].order_id]
                  IN  IF BulkFails("orders", order_objects)
                      THEN Abort
                      ELSE IF n > 0 /\ db.products = <<>>
                      THEN \* random.choice([]) raises after the orders were committed
                           /\ db' = [db EXCEPT !.orders = orders]
                           /\ pc' = "failed"
                      ELSE \E idraw \in [1..n -> [store_id : store_ids, items : ItemDraws(db.products)]] :
                             LET order_item_objects ==
                                     Flatten([i \in 1..n |->
                                        [k \in 1..Len(idraw[i].items) |->
                                            order_item_object(order_ids[i], idraw[i].store_id,
                                                db.products[idraw[i].items[k].product],
                                                idraw[i].items[k].quantity,
                                                idraw[i].items[k].discount_percent)]])
                             IN  IF BulkFails("order_items", order_item_objects)
                                 THEN /\ db' = [db EXCEPT !.orders = orders]
                                      /\ pc' = "failed"
                                 ELSE /\ db' = [db EXCEPT
                                                !.orders = orders,
                                                !.order_items = db.order_items \o
                                                    WithIds(db.order_items, order_item_objects, "order_item_id")]
                                      /\ pc' = "insert_agent_support_data"
    /\ StageOutcome("insert_orders_and_items")
    /\ UNCHANGED <<refdata, server, db_exists, run, inv_sig>>

----------------------------------------------------------------------------
(* Support data, statistics, and the run as a whole *)

insert_agent_support_data ==
    /\ variant = "orm"
    /\ pc = "insert_agent_support_data"
    /\ db' = [db EXCEPT !.approvers = db.approvers \o <<"EXEC001", "DIR001", "MGR001">>,
                        !.company_policies = db.company_policies \o
                            <<"Procurement Policy", "Budget Authorization">>]
    /\ pc' = "show_statistics"
    /\ StageOutcome("insert_agent_support_data")
    /\ UNCHANGED <<refdata, server, db_exists, run, inv_sig>>

\* the counts are read with COUNT, the revenue with SUM and AVG, and shown
\* if order_stats.total_revenue: the report divides nothing itself
show_statistics ==
    /\ variant = "orm"
    /\ pc = "show_statistics"
    /\ pc' = "done"
    /\ StageOutcome("show_statistics")
    /\ UNCHANGED <<refdata, server, db, db_exists, run, inv_sig>>

\* import of the module: the three loaders run before main(); a loader that
\* fails logs and re-raises, and the process ends with the uncaught exception
load_reference_data ==
    /\ pc = "load"
    /\ IF env.documents_ok
       THEN /\ pc' = "main"
            /\ UNCHANGED exit_status
       ELSE /\ pc' = "failed"
            /\ exit_status' = 1
    /\ UNCHANGED <<refdata, server, db, db_exists, log, run, inv_sig>>

\* mutant: the generation starts at the categories, the stores stage left out
main_without_stores_stage ==
    /\ variant = "orm"
    /\ pc = "main"
    /\ db' = EmptyDB
    /\ db_exists' = TRUE
    /\ pc' = "insert_categories"
    /\ UNCHANGED <<refdata, server, log, exit_status, run, inv_sig>>

\* mutant: the generation keeps the existing database file
main_keeps_artifact ==
    /\ variant = "orm"
    /\ pc = "main"
    /\ IF args.show_stats
       THEN IF ~db_exists
            THEN /\ pc' = "failed"
                 /\ exit_status' = 1
                 /\ UNCHANGED <<db, db_exists>>
            ELSE /\ pc' = "show_statistics"
                 /\ UNCHANGED <<db, db_exists, exit_status>>
       ELSE /\ db' = db
            /\ db_exists' = TRUE
            /\ pc' = "insert_stores"
            /\ UNCHANGED exit_status
    /\ UNCHANGED <<refdata, server, log, run, inv_sig>>

\* main() --show-stats: exit 1 when the database file is missing, else report.
\* main() otherwise: remove the existing database, create the schema, open
\* the session
main ==
    /\ variant = "orm"
    /\ pc = "main"
    /\ IF args.show_stats
       THEN IF ~db_exists
            THEN /\ pc' = "failed"
                 /\ exit_status' = 1
                 /\ UNCHANGED <<db, db_exists>>
            ELSE /\ pc' = "show_statistics"
                 /\ UNCHANGED <<db, db_exists, exit_status>>
       ELSE /\ db' = EmptyDB
            /\ db_exists' = TRUE
            /\ pc' = "insert_stores"
            /\ UNCHANGED exit_status
    /\ UNCHANGED <<refdata, server, log, run, inv_sig>>

----------------------------------------------------------------------------
(* Stages of the sqlite3 generator (data_prep/generate_zava_sqlite.py).    *)
(* Its product_data.json nests the products under category and             *)
(* subcategory keys: main_categories is the catalog grouped by those keys  *)
(* in order of first appearance.                                           *)

RECURSIVE Dedup(_)
Dedup(s) ==
    IF s = <<>> THEN <<>>
    ELSE LET rest == Dedup(SelectSeq(Tail(s), LAMBDA x : x # Head(s)))
         IN  <<Head(s)>> \o rest

\* main_categories.keys()
main_categories == Dedup([i \in 1..Len(products_list) |-> products_list[i].category])

\* main_categories[category].keys()
subcategories(category) ==
    Dedup([i \in 1..Len(SelectSeq(products_list, LAMBDA e : e.category = category)) |->
              SelectSeq(products_list, LAMBDA e : e.category = category)[i].subcategory])

\* main_categories[category][subcategory]
product_list_of(category, subcategory) ==
    SelectSeq(products_list, LAMBDA e : e.category = category /\ e.subcategory = subcategory)

\* raise ... finally: conn.close() discards the open transaction; sys.exit(1)
prep_Abort ==
    /\ pc' = "failed"
    /\ UNCHANGED db

\* mutant: the modes connect before they look for the file; sqlite3.connect
\* creates it
prep_main_connects_first ==
    /\ variant = "prep"
    /\ pc = "main"
    /\ IF args.show_stats \/ args.embeddings_only
       THEN IF ~db_exists
            THEN /\ pc' = "failed"
                 /\ exit_status' = 1
                 /\ db_exists' = TRUE
            ELSE /\ pc' = IF args.show_stats THEN "show_database_stats"
                          ELSE "populate_product_description_embeddings"
                 /\ UNCHANGED <<exit_status, db_exists>>
       ELSE /\ pc' = "generate_sqlite_database"
            /\ UNCHANGED <<exit_status, db_exists>>
    /\ UNCHANGED <<refdata, server, db, log, run, inv_sig>>

\* main(): --show-stats and --embeddings-only exit 1 when the database file
\* is missing and else connect to it; without a mode the database is generated
prep_main ==
    /\ variant = "prep"
    /\ pc = "main"
    /\ IF args.show_stats \/ args.embeddings_only
       THEN IF ~db_exists
            THEN /\ pc' = "failed"
                 /\ exit_status' = 1
            ELSE /\ pc' = IF args.show_stats THEN "show_database_stats"
                          ELSE "populate_product_description_embeddings"
                 /\ UNCHANGED exit_status
       ELSE /\ pc' = "generate_sqlite_database"
            /\ UNCHANGED exit_status
    /\ UNCHANGED <<refdata, server, db, db_exists, log, run, inv_sig>>

\* generate_sqlite_database(): os.remove(DB_PATH), connect, create the schema
generate_sqlite_database ==
    /\ variant = "prep"
    /\ pc = "generate_sqlite_database"
    /\ db' = EmptyDB
    /\ db_exists' = TRUE
    /\ pc' = "prep_insert_stores"
    /\ UNCHANGED <<refdata, server, log, exit_status, run, inv_sig>>

prep_insert_stores ==
    /\ variant = "prep"
    /\ pc = "prep_insert_stores"
    /\ LET rows == db.stores \o WithIds(db.stores, store_objects, "store_id")
       IN  IF \E i \in DOMAIN stores : stores[i].rls_user_id = ""
           THEN prep_Abort
           ELSE IF ~stores_unique(rows)
           THEN prep_Abort
           ELSE /\ db' = [db EXCEPT !.stores = rows]
                /\ pc' = "prep_insert_categories"
    /\ StageOutcome("prep_insert_stores")
    /\ UNCHANGED <<refdata, server, db_exists, run, inv_sig>>

prep_insert_categories ==
    /\ variant = "prep"
    /\ pc = "prep_insert_categories"
    /\ LET categories_data == [i \in 1..Len(main_categories) |->
                                  [category_id |-> 0, category_name |-> main_categories[i]]]
           rows == db.categories \o WithIds(db.categories, categories_data, "category_id")
       IN  IF ~categories_unique(rows)
           THEN prep_Abort
           ELSE /\ db' = [db EXCEPT !.categories = rows]
                /\ pc' = "prep_insert_product_types"
    /\ StageOutcome("prep_insert_categories")
    /\ UNCHANGED <<refdata, server, db_exists, run, inv_sig>>

product_types_data ==
    Flatten([c \in 1..Len(main_categories) |->
        [t \in 1..Len(subcategories(main_categories[c])) |->
            [type_id |-> 0,
             category_id |-> category_mapping(db.categories, main_categories[c]),
             type_name |-> subcategories(main_categories[c])[t]]]])

prep_insert_product_types ==
    /\ variant = "prep"
    /\ pc = "prep_insert_product_types"
    /\ db' = [db EXCEPT !.product_types =
                 db.product_types \o WithIds(db.product_types, product_types_data, "type_id")]
    /\ pc' = "prep_insert_customers"
    /\ StageOutcome("prep_insert_product_types")
    /\ UNCHANGED <<refdata, server, db_exists, run, inv_sig>>

\* name.replace("'", "''")
DoubleQuote(name) ==
    Flatten([k \in 1..Len(name) |-> IF name[k] = "'" THEN <<"'", "'">> ELSE <<name[k]>>])

\* the first store row of that name, None (NULL) when there is none
prep_primary_store_id(name) ==
    IF \E i \in DOMAIN db.stores : db.stores[i].store_name = name
    THEN db.stores[CHOOSE i \in DOMAIN db.stores :
                      /\ db.stores[i].store_name = name
                      /\ \A j \in DOMAIN db.stores : db.stores[j].store_name = name => i <= j].store_id
    ELSE NULL

prep_customer(i, first, last, store) ==
    [customer_id |-> 0,
     first_name |-> DoubleQuote(first), last_name |-> DoubleQuote(last),
     email |-> Email(DoubleQuote(first), DoubleQuote(last), i),
     primary_store_id |-> prep_primary_store_id(store)]

prep_insert_customers ==
    /\ variant = "prep"
    /\ pc = "prep_insert_customers"
    /\ IF args.num_customers > 0 /\ (stores = <<>> \/ WeightTotal = 0)
       THEN prep_Abort
       ELSE \E draw \in [1..args.num_customers ->
                            [first : FirstNameDraws, last : LastNameDraws, store : weighted_store_choice]] :
               LET customers_data ==
                       [i \in 1..args.num_customers |->
                           prep_customer(i, draw[i].first, draw[i].last, draw[i].store)]
                   rows == db.customers \o WithIds(db.customers, customers_data, "customer_id")
               IN  IF ~customers_unique(rows) \/ BulkFails("customers", customers_data)
                   THEN prep_Abort
                   ELSE /\ db' = [db EXCEPT !.customers = rows]
                        /\ pc' = "prep_insert_products"
    /\ StageOutcome("prep_insert_customers")
    /\ UNCHANGED <<refdata, server, db_exists, run, inv_sig>>

\* round(cost / 0.67, 2) for a cost in whole cents
DivideBy067(cost) ==
    LET n == (cost \div CENT) * 100         \* cents * 100 / 67
        q == n \div 67
        r == n % 67
    IN  (IF 2 * r > 67 THEN q + 1 ELSE q) * CENT

\* cost = float(price); base_price = round(cost / 0.67, 2)
prep_product(product, category_id, type_id) ==
    LET cost == product.price * CENT
    IN  [product_id |-> 0, sku |-> product.sku, category_id |-> category_id,
         type_id |-> type_id, supplier_id |-> NULL,
         cost |-> cost, base_price |-> DivideBy067(cost)]

products_data ==
    Flatten([c \in 1..Len(main_categories) |->
        LET category == main_categories[c]
            category_id == category_mapping(db.categories, category)
        IN  Flatten([t \in 1..Len(subcategories(category)) |->
              LET subcategory == subcategories(category)[t]
                  type_id == type_mapping(db.product_types, category_id, subcategory)
                  product_list == product_list_of(category, subcategory)
              IN  IF product_list = <<>> \/ type_id = 0 THEN <<>>
                  ELSE [k \in 1..Len(product_list) |->
                           prep_product(product_list[k], category_id, type_id)]])])

prep_insert_products ==
    /\ variant = "prep"
    /\ pc = "prep_insert_products"
    /\ LET rows == db.products \o WithIds(db.products, products_data, "product_id")
       IN  IF ~products_unique(rows)
           THEN prep_Abort
           ELSE /\ db' = [db EXCEPT !.products = rows]
                /\ pc' = "populate_product_description_embeddings"
    /\ StageOutcome("prep_insert_products")
    /\ UNCHANGED <<refdata, server, db_exists, run, inv_sig>>

\* the (sku, description_embedding) pairs of the catalog, category by
\* category and type by type (if sku and description_embedding), then
\* SELECT product_id FROM products WHERE sku = ?; the pair is skipped when no
\* product has the SKU
prep_embedding_rows(rows) ==
    LET products_with_embeddings ==
            Flatten([c \in 1..Len(main_categories) |->
                Flatten([t \in 1..Len(subcategories(main_categories[c])) |->
                    SelectSeq(product_list_of(main_categories[c],
                                              subcategories(main_categories[c])[t]),
                              LAMBDA product : product.description_embedding # <<>>)])])
        found == SelectSeq(products_with_embeddings,
                           LAMBDA product : sku_to_product_id(rows, product.sku) # 0)
    IN  [i \in 1..Len(found) |->
            [product_id |-> sku_to_product_id(rows, found[i].sku),
             description_embedding |-> found[i].description_embedding]]

\* mutant: clear_existing=False, the rows are added to those of the table
description_embeddings_appended(database) ==
    database.product_description_embeddings \o prep_embedding_rows(database.products)

\* the rows of the table when the inserts of
\* populate_product_description_embeddings(conn, clear_existing=True) are
\* done: the committed DELETE has emptied it
description_embeddings_written(database) ==
    prep_embedding_rows(database.products)

\* populate_product_description_embeddings(conn, clear_existing=True) as a
\* stage of the generation and as the work of --embeddings-only; an insert
\* that raises leaves the table as the DELETE left it
populate_product_description_embeddings ==
    /\ variant = "prep"
    /\ pc = "populate_product_description_embeddings"
    /\ LET rows == description_embeddings_written(db)
       IN  IF ~ProductDescriptionEmbedding_unique(rows)
           THEN /\ db' = [db EXCEPT !.product_description_embeddings = <<>>]
                /\ pc' = "failed"
           ELSE /\ db' = [db EXCEPT !.product_description_embeddings = rows]
                /\ pc' = IF args.embeddings_only THEN "done" ELSE "prep_insert_inventory"
    /\ StageOutcome("populate_product_description_embeddings")
    /\ UNCHANGED <<refdata, server, db_exists, run, inv_sig>>

StockDraws == {10, 200}                     \* drawn from random.randint(10, 200)

\* every store with every product, a freely random stock level per pair
prep_insert_inventory ==
    /\ variant = "prep"
    /\ pc = "prep_insert_inventory"
    /\ \E stock \in [(DOMAIN db.stores) \X (DOMAIN db.products) -> StockDraws] :
         LET inventory_data ==
                 Flatten([s \in 1..Len(db.stores) |->
                    [p \in 1..Len(db.products) |->
                        [store_id |-> db.stores[s].store_id,
                         product_id |-> db.products[p].product_id,
                         stock_level |-> stock[<<s, p>>]]]])
             rows == db.inventory \o inventory_data
         IN  IF ~inventory_unique(rows)
             THEN prep_Abort
             ELSE /\ db' = [db EXCEPT !.inventory = rows]
                  /\ pc' = "prep_insert_orders"
    /\ StageOutcome("prep_insert_inventory")
    /\ UNCHANGED <<refdata, server, db_exists, run, inv_sig>>

\* Orders and order items, customer-driven
PrepQuantityDraws   == {5}                    \* drawn from random.choices([1, 2, 3, 4, 5], weights)
JitterDraws         == {117}                  \* percent, drawn from random.uniform(0.8, 1.2)
PrepDiscountChoices == {0, 5, 25}             \* 0: random.random() >= 0.15; else of [5, 10, 15, 20, 25]

\* one order item of the customer-driven mode; nothing is rounded
prep_order_item(order_id, store_id, product, quantity, jitter, discount_percent) ==
    LET unit_price == Percent(product.base_price, jitter)
        discount_amount == IF discount_percent = 0 THEN 0
                           ELSE Percent(unit_price * quantity, discount_percent)
        total_amount == (unit_price * quantity) - discount_amount
    IN  [order_item_id |-> 0, order_id |-> order_id, store_id |-> store_id,
         product_id |-> product.product_id, quantity |-> quantity,
         unit_price |-> unit_price, discount_percent |-> discount_percent,
         discount_amount |-> discount_amount, total_amount |-> total_amount]

PrepItemDraw(products) ==
    [product : DOMAIN products, quantity : PrepQuantityDraws, jitter : JitterDraws,
     discount_percent : PrepDiscountChoices]

PrepOrderDraw(products) ==
    [store : weighted_store_choice,
     items : UNION {[1..n -> PrepItemDraw(products)] : n \in ItemCountDraws}]

\* The orders of one run in generation order: customer by customer, each
\* customer with the number of orders drawn for it (at most MaxOrders in all).
PrepOrderSeqs(n, products) ==
    {seq \in SeqsUpTo([customer_id : 1..n, order : PrepOrderDraw(products)], MaxOrders) :
        \A i, j \in DOMAIN seq : i < j => seq[i].customer_id <= seq[j].customer_id}

prep_insert_orders ==
    /\ variant = "prep"
    /\ pc = "prep_insert_orders"
    /\ \/ \* some customer draws an order, and no product or no weight to choose from
          /\ args.num_customers > 0
          /\ MaxOrders > 0
          /\ db.products = <<>> \/ WeightTotal = 0
          /\ prep_Abort
       \/ \E seq \in PrepOrderSeqs(args.num_customers, db.products) :
            LET orders_data ==
                    [i \in 1..Len(seq) |->
                        [order_id |-> 0, customer_id |-> seq[i].customer_id,
                         store_id |-> prep_primary_store_id(seq[i].order.store)]]
                \* order_id counts from 1, whatever the table holds
                order_items_data ==
                    Flatten([i \in 1..Len(seq) |->
                        [k \in 1..Len(seq[i].order.items) |->
                            prep_order_item(i, prep_primary_store_id(seq[i].order.store),
                                db.products[seq[i].order.items[k].product],
                                seq[i].order.items[k].quantity,
                                seq[i].order.items[k].jitter,
                                seq[i].order.items[k].discount_percent)]])
            IN  /\ db' = [db EXCEPT
                           !.orders = db.orders \o WithIds(db.orders, orders_data, "order_id"),
                           !.order_items = db.order_items \o
                               WithIds(db.order_items, order_items_data, "order_item_id")]
                /\ pc' = "show_database_stats"
    /\ StageOutcome("prep_insert_orders")
    /\ UNCHANGED <<refdata, server, db_exists, run, inv_sig>>

\* mutant: the ratios are computed whatever the number of orders
report_ratios_unguarded(database) ==
    {[ratio |-> "Average Order Value", denominator |-> Len(database.orders)],
     [ratio |-> "Orders per Customer", denominator |-> Len(database.customers)],
     [ratio |-> "Items per Order", denominator |-> Len(database.orders)]}

\* the ratios that the report computes, each with its denominator:
\* if orders > 0: total_revenue / orders, orders / customers, order_items / orders
report_ratios(database) ==
    IF Len(database.orders) > 0
    THEN {[ratio |-> "Average Order Value", denominator |-> Len(database.orders)],
          [ratio |-> "Orders per Customer", denominator |-> Len(database.customers)],
          [ratio |-> "Items per Order", denominator |-> Len(database.orders)]}
    ELSE {}

\* a division by zero raises ZeroDivisionError, which nothing in the report
\* catches
show_database_stats ==
    /\ variant = "prep"
    /\ pc = "show_database_stats"
    /\ IF \E r \in report_ratios(db) : r.denominator = 0
       THEN pc' = "failed"
       ELSE pc' = "done"
    /\ StageOutcome("show_database_stats")
    /\ UNCHANGED <<refdata, server, db, db_exists, run, inv_sig>>

\* A further run of the command line, with --embeddings-only, on the
\* artifact that the last run completed: the documents load as before,
\* main() finds the database file, populates the embeddings and returns.
embeddings_only_run ==
    /\ variant = "prep"
    /\ pc = "done"
    /\ ~args.show_stats
    /\ args' = [args EXCEPT !.embeddings_only = TRUE]
    /\ LET rows == description_embeddings_written(db)
       IN  IF ~ProductDescriptionEmbedding_unique(rows)
           THEN /\ db' = [db EXCEPT !.product_description_embeddings = <<>>]
                /\ pc' = "failed"
                /\ log' = <<>>
                /\ exit_status' = 1
           ELSE /\ db' = [db EXCEPT !.product_description_embeddings = rows]
                /\ pc' = "done"
                /\ log' = <<"populate_product_description_embeddings">>
                /\ exit_status' = 0
    /\ UNCHANGED <<server, variant, stores, products_list, supplier_data, env, db_exists,
                   run, inv_sig>>

----------------------------------------------------------------------------
(* Reproducibility test: a second generation into another storage target *)

store_name_of(store_id) ==
    LET i == LastIndex(db.stores, LAMBDA r : r.store_id = store_id)
    IN  db.stores[i].store_name

sku_of(product_id) ==
    LET i == LastIndex(db.products, LAMBDA r : r.product_id = product_id)
    IN  db.products[i].sku

\* SELECT s.store_name, p.sku, i.stock_level FROM inventory i JOIN stores s JOIN products p
get_inventory_hash ==
    {<<store_name_of(db.inventory[i].store_id), sku_of(db.inventory[i].product_id),
       db.inventory[i].stock_level>> : i \in DOMAIN db.inventory}

second_generation ==
    /\ variant = "orm"
    /\ ~args.show_stats
    /\ pc = "done"
    /\ run = 1
    /\ inv_sig' = get_inventory_hash
    /\ run' = 2
    /\ db' = EmptyDB
    /\ db_exists' = FALSE
    /\ pc' = "load"
    /\ log' = <<>>
    /\ exit_status' = NoStatus
    /\ UNCHANGED <<refdata, server>>

----------------------------------------------------------------------------
(* The inventory server (mcp_servers/inventory_server.py).  It serves the   *)
(* artifact of a generation.  Every call of transfer_stock opens a session  *)
(* of its own; the calls of concurrent requests interleave at the awaits:   *)
(* the SELECT, the flush of a new destination row, the commit.  The driver  *)
(* starts a transaction at the first INSERT or UPDATE of a session, not at  *)
(* its SELECT, and a second writer waits for the first to commit.           *)

Calls == {1, 2}                 \* the requests that reach the server
TransferStores == 1..3          \* the store ids of the artifact
TransferProduct == 1            \* the product the requests are about
MaxStock    == 2                \* stock levels of the artifact: 0..MaxStock
MaxQuantity == 2                \* quantities asked for: 0..MaxQuantity

generator == <<refdata, db_exists, pc, log, exit_status, run, inv_sig>>

Requests ==
    [from_store_id : TransferStores, to_store_id : TransferStores,
     product_id : {TransferProduct}, quantity : 0..MaxQuantity]

\* a request that has not reached the server; from_inventory and
\* to_inventory hold the stock level read, NULL for None
NoCall ==
    [pc |-> "idle",
     request |-> [from_store_id |-> 0, to_store_id |-> 0, product_id |-> 0, quantity |-> 0],
     from_inventory |-> NULL, to_inventory |-> NULL, success |-> FALSE]

\* select(Inventory, Store.store_name).join(Store, ...).where(product_id,
\* store_id): the stock level of the row, NULL when the query returns none
inventory_rows(store_id, product_id) ==
    LET i == LastIndex(db.inventory,
                       LAMBDA r : /\ r.store_id = store_id
                                  /\ r.product_id = product_id
                                  /\ \E k \in DOMAIN db.stores : db.stores[k].store_id = r.store_id)
    IN  IF i = 0 THEN NULL ELSE db.inventory[i].stock_level

\* transfer_stock up to the return of its SELECT: the request is rejected
\* before a session is opened, or the two rows are read
transfer_stock(c) ==
    /\ pc = "serving"
    /\ calls[c].pc = "idle"
    /\ \E request \in Requests :
         IF request.from_store_id = request.to_store_id \/ request.quantity <= 0
         THEN calls' = [calls EXCEPT ![c] =
                           [@ EXCEPT !.pc = "returned", !.request = request, !.success = FALSE]]
         ELSE calls' = [calls EXCEPT ![c] =
                           [@ EXCEPT !.pc = "selected", !.request = request,
                                     !.from_inventory =
                                         inventory_rows(request.from_store_id, request.product_id),
                                     !.to_inventory =
                                         inventory_rows(request.to_store_id, request.product_id)]]
    /\ UNCHANGED <<db, writer, inventory0, generator>>

\* a call begins when no other call is between its SELECT and its return
transfer_stock_alone(c) ==
    /\ \A d \in Calls \ {c} : calls[d].pc \in {"idle", "returned"}
    /\ transfer_stock(c)

\* mutant: the stock of the source is not compared with the quantity
transfer_stock_checks_source_only(from_inventory, quantity) ==
    IF from_inventory = NULL THEN "No inventory record found" ELSE "ok"

\* if not from_inventory / if from_inventory.stock_level < quantity
transfer_stock_checks(from_inventory, quantity) ==
    IF from_inventory = NULL THEN "No inventory record found"
    ELSE IF from_inventory < quantity THEN "Insufficient stock at source store"
    ELSE "ok"

\* the call returns success False after its checks
transfer_stock_reject(c) ==
    /\ pc = "serving"
    /\ calls[c].pc = "selected"
    /\ transfer_stock_checks(calls[c].from_inventory, calls[c].request.quantity) # "ok"
    /\ calls' = [calls EXCEPT ![c] = [@ EXCEPT !.pc = "returned", !.success = FALSE]]
    /\ UNCHANGED <<db, writer, inventory0, generator>>

\* if not to_inventory: session.add(Inventory(stock_level=0)); flush().  The
\* INSERT opens the transaction of the session; it raises when the table
\* has got the row since the SELECT, and the call returns success False.
transfer_stock_flush(c) ==
    /\ pc = "serving"
    /\ calls[c].pc = "selected"
    /\ transfer_stock_checks(calls[c].from_inventory, calls[c].request.quantity) = "ok"
    /\ calls[c].to_inventory = NULL
    /\ writer = 0
    /\ LET to_inventory == [store_id |-> calls[c].request.to_store_id,
                            product_id |-> calls[c].request.product_id,
                            stock_level |-> 0]
       IN  IF ~Inventory_unique(db.inventory \o <<to_inventory>>)
           THEN /\ calls' = [calls EXCEPT ![c] = [@ EXCEPT !.pc = "returned", !.success = FALSE]]
                /\ UNCHANGED writer
           ELSE /\ calls' = [calls EXCEPT ![c] = [@ EXCEPT !.pc = "flushed", !.to_inventory = 0]]
                /\ writer' = c
    /\ UNCHANGED <<db, inventory0, generator>>

\* mutant: the destination is not credited
commit_rows_source_only(inventory, call) ==
    [i \in DOMAIN inventory |->
        IF /\ inventory[i].store_id = call.request.from_store_id
           /\ inventory[i].product_id = call.request.product_id
        THEN [inventory[i] EXCEPT !.stock_level = call.from_inventory - call.request.quantity]
        ELSE inventory[i]]

\* from_inventory.stock_level -= quantity; to_inventory.stock_level +=
\* quantity; commit(): the rows are written with the levels computed from
\* the levels the call has read, the new destination row with them
commit_rows(inventory, call) ==
    LET request == call.request
        rows == IF call.pc = "flushed"
                THEN inventory \o <<[store_id |-> request.to_store_id,
                                     product_id |-> request.product_id,
                                     stock_level |-> 0]>>
                ELSE inventory
    IN  [i \in DOMAIN rows |->
            IF rows[i].store_id = request.from_store_id /\ rows[i].product_id = request.product_id
            THEN [rows[i] EXCEPT !.stock_level = call.from_inventory - request.quantity]
            ELSE IF rows[i].store_id = request.to_store_id /\ rows[i].product_id = request.product_id
            THEN [rows[i] EXCEPT !.stock_level = call.to_inventory + request.quantity]
            ELSE rows[i]]

\* await session.commit(), and the return of success True; the UPDATEs wait
\* while the session of another call holds the write lock
transfer_stock_commit(c) ==
    /\ pc = "serving"
    /\ \/ calls[c].pc = "flushed" /\ writer = c
       \/ /\ calls[c].pc = "selected"
          /\ transfer_stock_checks(calls[c].from_inventory, calls[c].request.quantity) = "ok"
          /\ calls[c].to_inventory # NULL
          /\ writer = 0
    /\ db' = [db EXCEPT !.inventory = commit_rows(db.inventory, calls[c])]
    /\ writer' = 0
    /\ calls' = [calls EXCEPT ![c] = [@ EXCEPT !.pc = "returned", !.success = TRUE]]
    /\ UNCHANGED <<inventory0, generator>>

----------------------------------------------------------------------------

(* Reference data the run starts from.  The documents are swept one group  *)
(* of fields at a time around a nominal document.                          *)

SkuSeq == <<"A", "B", "C">>

NominalStore(i) ==
    [store_name |-> StoreNames[((i - 1) % Len(StoreNames)) + 1] ,
     rls_user_id |-> "uid", customer_distribution_weight |-> 1,
     has_product_skus |-> TRUE, product_skus |-> <<"A", "B">>]

NominalEntry(i) ==
    [sku |-> SkuSeq[((i - 1) % Len(SkuSeq)) + 1], category |-> "Tools", subcategory |-> "Hand",
     price |-> 1000, supplier_id |-> 1, stock_level |-> NoHint,
     image_embedding |-> <<1, 2>>, description_embedding |-> <<3>>]

SkuLists == SeqsUpTo(ListedSkus, MaxSkuList)

\* one store: with a list of any listed SKUs, or without a list
ListRefs ==
    {[stores |-> <<[NominalStore(1) EXCEPT !.has_product_skus = a.listed, !.product_skus = a.skus]>>,
      products_list |-> <<[NominalEntry(1) EXCEPT !.stock_level = 7], NominalEntry(2)>>,
      supplier_data |-> <<1>>,
      args |-> [num_customers |-> 1, num_orders |-> 0]] :
        a \in {x \in [listed : BOOLEAN, skus : SkuLists] : x.listed \/ x.skus = <<>>}}

\* several stores: each without a list, or with one of a few lists
NominalAssignments ==
    {[listed |-> FALSE, skus |-> <<>>], [listed |-> TRUE, skus |-> <<>>],
     [listed |-> TRUE, skus |-> <<"A">>], [listed |-> TRUE, skus |-> <<"A", "B">>],
     [listed |-> TRUE, skus |-> <<"B", "X">>]}

AssignmentStores ==
    UNION {[1..n -> NominalAssignments] : n \in 1..MaxStores}

StoresOfAssignment(a) ==
    [i \in 1..Len(a) |->
        [NominalStore(i) EXCEPT !.has_product_skus = a[i].listed, !.product_skus = a[i].skus]]

\* the assignments, over a catalog of A (with a stock hint) and B (without)
AssignmentRefs ==
    {[stores |-> StoresOfAssignment(a),
      products_list |-> <<[NominalEntry(1) EXCEPT !.stock_level = 7], NominalEntry(2)>>,
      supplier_data |-> <<1>>,
      args |-> [num_customers |-> 1, num_orders |-> 0]] :
        a \in AssignmentStores}

\* the SKUs and stock hints of the catalog, under nominal assignments
StockRefs ==
    {[stores |-> [i \in 1..k |-> NominalStore(i)],
      products_list |-> [i \in 1..Len(c) |->
                            [NominalEntry(i) EXCEPT !.sku = c[i].sku, !.stock_level = c[i].stock_level]],
      supplier_data |-> <<1>>,
      args |-> [num_customers |-> 1, num_orders |-> 0]] :
        k \in 1..Min(MaxStores, Len(StoreNames)),
        c \in SeqsUpTo([sku : Skus, stock_level : StockHints], MaxProducts)}

InventoryRefs == ListRefs \cup AssignmentRefs \cup StockRefs

\* the taxonomy of the catalog
CatalogRefs ==
    {[stores |-> <<NominalStore(1)>>,
      products_list |-> [i \in 1..Len(c) |->
                            [NominalEntry(i) EXCEPT !.sku = c[i].sku, !.category = c[i].category,
                                                    !.subcategory = c[i].subcategory]],
      supplier_data |-> <<1>>,
      args |-> [num_customers |-> 1, num_orders |-> 0]] :
        c \in SeqsUpTo([sku : Skus, category : Range(CategoryNames),
                        subcategory : Range(TypeNames)], MaxProducts)}

\* the suppliers of the catalog entries and of supplier_data.json
SupplierRefs ==
    {[stores |-> <<NominalStore(1)>>,
      products_list |-> [i \in 1..Len(c) |-> [NominalEntry(i) EXCEPT !.supplier_id = c[i]]],
      supplier_data |-> sd,
      args |-> [num_customers |-> 1, num_orders |-> 0]] :
        c \in SeqsUpTo(SupplierIds \cup {NULL}, Min(MaxProducts, Len(SkuSeq))),
        sd \in {<<>>, <<1>>, <<1, 2>>}}

\* store names, security principals and weights; the number of customers
StoreRefs ==
    {[stores |-> [i \in 1..Len(st) |->
                    [NominalStore(i) EXCEPT !.store_name = st[i].store_name,
                                            !.rls_user_id = st[i].rls_user_id,
                                            !.customer_distribution_weight = st[i].weight]],
      products_list |-> <<NominalEntry(1)>>,
      supplier_data |-> <<1>>,
      args |-> [num_customers |-> n, num_orders |-> 0]] :
        st \in UNION {[1..k -> [store_name : {"s1", "s2"}, rls_user_id : {"", "uid"},
                                weight : {0, 1}]] : k \in 0..MaxStores},
        n \in 0..MaxCustomers}

\* prices and the number of orders: several stores with one product, or one
\* store with several products; more than one order with one of each
PricedCatalogs(k) ==
    IF k = 1 THEN SeqsUpTo(PriceDraws, Min(MaxProducts, Len(SkuSeq)))
    ELSE {<<p>> : p \in PriceDraws}

OrderCounts(k, c) == 0..(IF k = 1 /\ Len(c) = 1 THEN MaxOrders ELSE Min(1, MaxOrders))

OrderRefs ==
    UNION {UNION {{[stores |-> [i \in 1..k |-> NominalStore(i)],
                    products_list |-> [i \in 1..Len(c) |-> [NominalEntry(i) EXCEPT !.price = c[i]]],
                    supplier_data |-> <<1>>,
                    args |-> [num_customers |-> 1, num_orders |-> m]] :
                      m \in OrderCounts(k, c)} :
                  c \in PricedCatalogs(k)} :
           k \in 1..Min(MaxStores, Len(StoreNames))}

RefData == InventoryRefs \cup CatalogRefs \cup SupplierRefs \cup StoreRefs \cup OrderRefs

\* The documents of the sqlite3 generator carry no SKU list, no stock hint
\* and no supplier, and key the stores by name.
PrepStore(i) == [NominalStore(i) EXCEPT !.has_product_skus = FALSE, !.product_skus = <<>>]
PrepEntry(i) == [NominalEntry(i) EXCEPT !.supplier_id = NULL]

PrepStoreRefs ==
    {[stores |-> [i \in 1..Len(st) |->
                    [PrepStore(i) EXCEPT !.rls_user_id = st[i].rls_user_id,
                                         !.customer_distribution_weight = st[i].weight]],
      products_list |-> <<>>,
      supplier_data |-> <<>>,
      args |-> [num_customers |-> n, num_orders |-> 0]] :
        st \in UNION {[1..k -> [rls_user_id : {"", "uid"}, weight : {0, 1}]] :
                         k \in 1..Min(MaxStores, Len(StoreNames))},
        n \in 0..MaxCustomers}

PrepTaxonomyRefs ==
    {[stores |-> <<PrepStore(1)>>,
      products_list |-> [i \in 1..Len(c) |->
                            [PrepEntry(i) EXCEPT !.sku = c[i].sku, !.category = c[i].category,
                                                 !.subcategory = c[i].subcategory]],
      supplier_data |-> <<>>,
      args |-> [num_customers |-> 0, num_orders |-> 0]] :
        c \in SeqsUpTo([sku : Skus, category : Range(CategoryNames),
                        subcategory : Range(TypeNames)], MaxProducts)}

\* prices, over one product and several stores
PrepOrderRefs ==
    {[stores |-> [i \in 1..k |-> PrepStore(i)],
      products_list |-> <<[PrepEntry(1) EXCEPT !.price = p]>>,
      supplier_data |-> <<>>,
      args |-> [num_customers |-> 1, num_orders |-> 0]] :
        p \in PriceDraws, k \in 1..Min(MaxStores, Len(StoreNames))}

PrepRefData == PrepStoreRefs \cup PrepTaxonomyRefs \cup PrepOrderRefs

\* a generation: neither --show-stats nor --embeddings-only
GenerateArgs(a) ==
    [num_customers |-> a.num_customers, num_orders |-> a.num_orders,
     show_stats |-> FALSE, embeddings_only |-> FALSE]

\* the documents are readable, no write fails, and the first run finds no
\* artifact at the path of the database
NominalEnv == [documents_ok |-> TRUE, fault |-> NoFault, prior |-> "none"]

\* An artifact left by an earlier generation over one store (of another
\* name than today's), one product, one customer and one order; its
\* description embedding is stale.
PriorDB ==
    [EmptyDB EXCEPT
        !.stores = <<[store_id |-> 1, store_name |-> "s0", rls_user_id |-> "uid"]>>,
        !.categories = <<[category_id |-> 1, category_name |-> "Tools"]>>,
        !.product_types = <<[type_id |-> 1, category_id |-> 1, type_name |-> "Hand"]>>,
        !.products = <<[product_id |-> 1, sku |-> "A", category_id |-> 1, type_id |-> 1,
                        supplier_id |-> NULL, cost |-> 1000 * CENT,
                        base_price |-> DivideBy067(1000 * CENT)]>>,
        !.customers = <<[customer_id |-> 1, first_name |-> <<"a">>, last_name |-> <<"a">>,
                         email |-> Email(<<"a">>, <<"a">>, 1), primary_store_id |-> 1]>>,
        !.inventory = <<[store_id |-> 1, product_id |-> 1, stock_level |-> 10]>>,
        !.orders = <<[order_id |-> 1, customer_id |-> 1, store_id |-> 1]>>,
        !.order_items = <<[order_item_id |-> 1, order_id |-> 1, store_id |-> 1,
                           product_id |-> 1, quantity |-> 1, unit_price |-> 1000 * CENT,
                           discount_percent |-> 0, discount_amount |-> 0,
                           total_amount |-> 1000 * CENT]>>,
        !.product_description_embeddings =
            <<[product_id |-> 1, description_embedding |-> <<9>>]>>]

\* every mode over every artifact and configuration, with a nominal catalog
Invocations ==
    UNION {LET \* the modes of the command line of the generator
               CommandLines ==
                   {a \in [num_customers : {1}, num_orders : {1}, show_stats : BOOLEAN,
                           embeddings_only : BOOLEAN] :
                       /\ ~(a.show_stats /\ a.embeddings_only)
                       /\ v = "orm" => ~a.embeddings_only}
               store == IF v = "orm" THEN NominalStore(1) ELSE PrepStore(1)
               \* the configuration: sound, a document missing or malformed, a
               \* store without its security principal
               Configurations ==
                   {[documents_ok |-> TRUE, stores |-> <<store>>],
                    [documents_ok |-> FALSE, stores |-> <<store>>],
                    [documents_ok |-> TRUE, stores |-> <<[store EXCEPT !.rls_user_id = ""]>>]}
               \* what the run finds at the path of the database: no file, a
               \* file with the schema and no row, a populated file
               Artifacts ==
                   {[prior |-> "none", db_exists |-> FALSE, db |-> EmptyDB],
                    [prior |-> "empty", db_exists |-> TRUE, db |-> EmptyDB],
                    [prior |-> "populated", db_exists |-> TRUE, db |-> PriorDB]}
           IN  {[variant |-> v, stores |-> c.stores,
                 products_list |-> <<IF v = "orm" THEN NominalEntry(1) ELSE PrepEntry(1)>>,
                 supplier_data |-> IF v = "orm" THEN <<1>> ELSE <<>>,
                 args |-> a,
                 env |-> [NominalEnv EXCEPT !.documents_ok = c.documents_ok, !.prior = f.prior],
                 db_exists |-> f.db_exists, db |-> f.db] :
                    a \in CommandLines, c \in Configurations, f \in Artifacts} :
           v \in {"orm", "prep"}}

\* generations over catalogs whose entries carry both, one or no vector: none
\* ("image_embedding" missing or an empty list), or a vector
EmbeddingInvocations ==
    UNION {{[variant |-> v,
             stores |-> <<IF v = "orm" THEN NominalStore(1) ELSE PrepStore(1)>>,
             products_list |->
                 [i \in 1..Len(c) |->
                     [(IF v = "orm" THEN NominalEntry(i) ELSE PrepEntry(i)) EXCEPT
                         !.image_embedding = c[i].image_embedding,
                         !.description_embedding = c[i].description_embedding]],
             supplier_data |-> IF v = "orm" THEN <<1>> ELSE <<>>,
             args |-> GenerateArgs([num_customers |-> 0, num_orders |-> 0]),
             env |-> NominalEnv,
             db_exists |-> FALSE, db |-> EmptyDB] :
                c \in SeqsUpTo([image_embedding : {<<>>, <<1, 2>>},
                              description_embedding : {<<>>, <<3>>}],
                             Min(MaxProducts, Len(SkuSeq)))} :
           v \in {"orm", "prep"}}

\* a generation over a nominal configuration, with customers for two chunks,
\* in which one chunk (the first or the second) of one bulk insert of the run
\* fails to be written
FaultInvocations ==
    UNION {{[variant |-> v,
             stores |-> <<IF v = "orm" THEN NominalStore(1) ELSE PrepStore(1)>>,
             products_list |-> <<IF v = "orm" THEN NominalEntry(1) ELSE PrepEntry(1)>>,
             supplier_data |-> IF v = "orm" THEN <<1, 2>> ELSE <<>>,
             args |-> GenerateArgs([num_customers |-> batch_size + 1, num_orders |-> 1]),
             env |-> [NominalEnv EXCEPT !.fault = [insert |-> i, chunk |-> k]],
             db_exists |-> FALSE, db |-> EmptyDB] :
                i \in IF v = "orm"
                       THEN {"suppliers", "supplier_contracts", "supplier_performance",
                             "product_image_embeddings", "product_description_embeddings",
                             "customers", "orders", "order_items"}
                       ELSE {"customers"},
                k \in 1..2} :
           v \in {"orm", "prep"}}

Init ==
    /\ \/ \E s \in Invocations \cup FaultInvocations \cup EmbeddingInvocations :
            /\ variant = s.variant
            /\ stores = s.stores
            /\ products_list = s.products_list
            /\ supplier_data = s.supplier_data
            /\ args = s.args
            /\ env = s.env
            /\ db = s.db
            /\ db_exists = s.db_exists
       \/ /\ variant = "orm"
          /\ \E r \in RefData :
               /\ stores = r.stores
               /\ products_list = r.products_list
               /\ supplier_data = r.supplier_data
               /\ args = GenerateArgs(r.args)
          /\ env = NominalEnv
          /\ db = EmptyDB
          /\ db_exists = FALSE
       \/ /\ variant = "prep"
          /\ \E r \in PrepRefData :
               /\ stores = r.stores
               /\ products_list = r.products_list
               /\ supplier_data = r.supplier_data
               /\ args = GenerateArgs(r.args)
          /\ env = NominalEnv
          /\ db = EmptyDB
          /\ db_exists = FALSE
    /\ pc = "load"
    /\ log = <<>>
    /\ exit_status = NoStatus
    /\ run = 1
    /\ inv_sig = {}
    /\ calls = [c \in Calls |-> NoCall]
    /\ writer = 0
    /\ inventory0 = <<>>

Next ==
    \/ load_reference_data
    \/ main
    \/ populate_product_embeddings
    \/ prep_main
    \/ populate_product_description_embeddings
    \/ embeddings_only_run
    \/ insert_stores
    \/ insert_categories
    \/ insert_product_types
    \/ insert_suppliers
    \/ insert_products
    \/ insert_customers
    \/ insert_inventory
    \/ insert_orders_and_items
    \/ insert_agent_support_data
    \/ show_statistics
    \/ second_generation
    \/ generate_sqlite_database
    \/ prep_insert_stores
    \/ prep_insert_categories
    \/ prep_insert_product_types
    \/ prep_insert_customers
    \/ prep_insert_products
    \/ prep_insert_inventory
    \/ prep_insert_orders
    \/ show_database_stats

Spec == Init /\ [][Next]_vars

----------------------------------------------------------------------------
(* The inventory server on a generated artifact *)

\* the Inventory tables of the artifact: each store with or without a row of
\* the product
ServerInventories ==
    {LET held == SelectSeq([s \in TransferStores |-> s], LAMBDA s : level[s] # NULL)
     IN  [i \in 1..Len(held) |->
             [store_id |-> held[i], product_id |-> TransferProduct,
              stock_level |-> level[held[i]]]] :
        level \in [TransferStores -> {NULL} \cup 0..MaxStock]}

\* the server starts on the artifact of a completed generation; of its
\* tables, transfer_stock reads the stores and the inventory
ServerInit ==
    /\ variant = "orm"
    /\ stores = [i \in TransferStores |-> NominalStore(i)]
    /\ products_list = <<NominalEntry(1)>>
    /\ supplier_data = <<1>>
    /\ args = GenerateArgs([num_customers |-> 0, num_orders |-> 0])
    /\ env = NominalEnv
    /\ \E inventory \in ServerInventories :
          /\ db = [EmptyDB EXCEPT
                     !.stores = WithIds(<<>>, store_objects, "store_id"),
                     !.inventory = inventory]
          /\ inventory0 = inventory
    /\ db_exists = TRUE
    /\ pc = "serving"
    /\ log = <<>>
    /\ exit_status = 0
    /\ run = 1
    /\ inv_sig = {}
    /\ calls = [c \in Calls |-> NoCall]
    /\ writer = 0

\* the requests are served as they come, their calls interleaved
ServerNext ==
    \E c \in Calls :
        \/ transfer_stock(c)
        \/ transfer_stock_reject(c)
        \/ transfer_stock_flush(c)
        \/ transfer_stock_commit(c)

ServerSpec == ServerInit /\ [][ServerNext]_vars

\* the requests are served one at a time
SerialNext ==
    \E c \in Calls :
        \/ transfer_stock_alone(c)
        \/ transfer_stock_reject(c)
        \/ transfer_stock_flush(c)
        \/ transfer_stock_commit(c)

SerialSpec == ServerInit /\ [][SerialNext]_vars

----------------------------------------------------------------------------
(* Properties *)

Rows(table) == Range(table)

\* the SKUs that have an Inventory row for the store of that name
InventorySkus(name) ==
    {sku_of(r.product_id) : r \in {x \in Rows(db.inventory) : store_name_of(x.store_id) = name}}

AllStoresListed == \A i \in DOMAIN stores : stores[i].has_product_skus

\* C1: after a completed run on the deterministic path (every store carries
\* a SKU list) the SKUs with an Inventory row for a store are exactly the
\* SKUs of that store's list.
C1_InventoryExactlyListed ==
    (variant = "orm" /\ pc = "done" /\ AllStoresListed) =>
        \A i \in DOMAIN stores :
            InventorySkus(stores[i].store_name) = Range(stores[i].product_skus)

\* the hint of the catalog entry that counts for a SKU, or the default
CatalogStock(sku) ==
    LET entries == {i \in DOMAIN products_list : products_list[i].sku = sku}
        last == CHOOSE i \in entries : \A j \in entries : j <= i
    IN  IF entries = {} \/ products_list[last].stock_level = NoHint
        THEN 25 ELSE products_list[last].stock_level

InventoryProducts(store_id) ==
    {r.product_id : r \in {x \in Rows(db.inventory) : x.store_id = store_id}}

ProductIds == {r.product_id : r \in Rows(db.products)}

StoreIds    == {r.store_id : r \in Rows(db.stores)}
CustomerIds == {r.customer_id : r \in Rows(db.customers)}
OrderIds    == {r.order_id : r \in Rows(db.orders)}
SupplierIdsInDb == {r.supplier_id : r \in Rows(db.suppliers)}

C4_ForeignKeysResolve ==
    pc = "done" =>
        /\ \A r \in Rows(db.products) :
              /\ r.category_id \in {c.category_id : c \in Rows(db.categories)}
              /\ r.type_id \in {t.type_id : t \in Rows(db.product_types)}
              /\ variant = "orm" => r.supplier_id # NULL /\ r.supplier_id \in SupplierIdsInDb
        /\ \A r \in Rows(db.inventory) : r.store_id \in StoreIds /\ r.product_id \in ProductIds
        /\ \A r \in Rows(db.orders) : r.customer_id \in CustomerIds /\ r.store_id \in StoreIds
        /\ \A r \in Rows(db.order_items) :
              r.order_id \in OrderIds /\ r.store_id \in StoreIds /\ r.product_id \in ProductIds

\* C5, as claimed: every OrderItem row, in either mode, has
\* total_amount = round(unit_price * quantity - discount_amount, 2).
C5_TotalRoundedToCents ==
    \A r \in Rows(db.order_items) :
        r.total_amount = Round2((r.unit_price * r.quantity) - r.discount_amount)

\* C5, amended: the rows of the volume-driven mode have
\* total_amount = round(unit_price * quantity - discount_amount, 2); the rows
\* of the customer-driven mode have total_amount = unit_price * quantity -
\* discount_amount, not rounded to cents.
C5_TotalFromOwnFields ==
    \A r \in Rows(db.order_items) :
        /\ variant = "orm" =>
              r.total_amount = Round2((r.unit_price * r.quantity) - r.discount_amount)
        /\ variant = "prep" =>
              r.total_amount = (r.unit_price * r.quantity) - r.discount_amount

C5_Witness ==
    /\ variant = "orm" /\ pc = "done"
    /\ \E r \in Rows(db.order_items) :
          r.unit_price = 999 * CENT /\ r.quantity = 3 /\ r.discount_percent = 5
              /\ r.discount_amount = 150 * CENT /\ r.total_amount = 2847 * CENT

\* C6, as claimed: discount_amount = unit_price * quantity * discount_percent
\* / 100, and it is 0 exactly when discount_percent is 0.
C6_DiscountExact ==
    \A r \in Rows(db.order_items) :
        /\ r.discount_amount = Percent(r.unit_price * r.quantity, r.discount_percent)
        /\ r.discount_amount = 0 <=> r.discount_percent = 0

\* C6, amended: discount_amount is unit_price * quantity * discount_percent
\* / 100, rounded to cents in the volume-driven mode and unrounded in the
\* customer-driven mode; discount_percent is 0 or one of 5, 10, 15 (volume-
\* driven) or of 5, 10, 15, 20, 25 (customer-driven); discount_amount is 0
\* whenever discount_percent is 0; unit_price 10.00, quantity 3 and 10 percent
\* give discount_amount 3.00 and total_amount 27.00.
C6_DiscountFromPercent ==
    \A r \in Rows(db.order_items) :
        /\ variant = "orm" =>
              /\ r.discount_amount = Round2(Percent(r.unit_price * r.quantity, r.discount_percent))
              /\ r.discount_percent \in {0, 5, 10, 15}
        /\ variant = "prep" =>
              /\ r.discount_amount = Percent(r.unit_price * r.quantity, r.discount_percent)
              /\ r.discount_percent \in {0, 5, 10, 15, 20, 25}
        /\ r.discount_percent = 0 => r.discount_amount = 0
        /\ (r.unit_price = 1000 * CENT /\ r.quantity = 3 /\ r.discount_percent = 10) =>
              (r.discount_amount = 300 * CENT /\ r.total_amount = 2700 * CENT)

C6_Witness ==
    /\ pc = "done"
    /\ \E r \in Rows(db.order_items) :
          r.unit_price = 1000 * CENT /\ r.quantity = 3 /\ r.discount_percent = 10
              /\ r.discount_amount = 300 * CENT

\* C7: every OrderItem row has total_amount >= 0, the discount never
\* exceeding unit_price * quantity.
C7_TotalNonNegative ==
    \A r \in Rows(db.order_items) :
        r.total_amount >= 0 /\ r.discount_amount <= r.unit_price * r.quantity

C7_Witness ==
    /\ pc = "done"
    /\ \E r \in Rows(db.order_items) :
          r.discount_percent = 15 /\ r.quantity = 3 /\ r.unit_price = 3 * CENT
              /\ r.discount_amount > 0

\* the customers stage has what it needs to choose a store for each customer,
\* and no write of it fails
CustomersStageCanChoose ==
    /\ env.fault.insert # "customers"
    /\ \/ pc = "insert_customers" /\ db.stores # <<>>
             /\ (args.num_customers = 0 \/ WeightTotal > 0)
       \/ pc = "prep_insert_customers"
             /\ (args.num_customers = 0 \/ (stores # <<>> /\ WeightTotal > 0))

\* C8: whatever names are drawn, all Customer emails are pairwise distinct,
\* and the customers stage never fails on a duplicate email.
C8_EmailsDistinct ==
    /\ [](\A i, j \in DOMAIN db.customers :
              i # j => db.customers[i].email # db.customers[j].email)
    /\ [][CustomersStageCanChoose => pc' # "failed"]_vars

C8_Witness ==
    /\ Len(db.customers) >= 2
    /\ db.customers[1].first_name = db.customers[2].first_name
    /\ db.customers[1].last_name = db.customers[2].last_name

\* C9: in every state of the artifact no two Product rows share a SKU and no
\* two Inventory rows share a (store, product) pair.
C9_KeysDistinct ==
    /\ \A i, j \in DOMAIN db.products : i # j => db.products[i].sku # db.products[j].sku
    /\ \A i, j \in DOMAIN db.inventory :
          i # j => \/ db.inventory[i].store_id # db.inventory[j].store_id
                   \/ db.inventory[i].product_id # db.inventory[j].product_id

\* a store lists a SKU twice: the inventory stage was reached and gave up
C9_Witness ==
    /\ pc = "failed"
    /\ db.customers # <<>> /\ db.products # <<>> /\ db.inventory = <<>>
    /\ \E i \in DOMAIN stores :
          stores[i].has_product_skus /\ ~NoDup(stores[i].product_skus)
              /\ \A k \in DOMAIN stores[i].product_skus : stores[i].product_skus[k] \in Skus

\* C10: after a completed run the (category, subcategory) pair of every
\* Product row exists as a ProductType row, named as in the catalog, and the
\* category of every ProductType row exists as a Category row.
C10_CategoryClosure ==
    pc = "done" =>
        /\ \A r \in Rows(db.products) :
              \E t \in Rows(db.product_types) : \E c \in Rows(db.categories) :
                  /\ t.type_id = r.type_id
                  /\ t.category_id = r.category_id
                  /\ c.category_id = r.category_id
                  /\ \E i \in DOMAIN products_list :
                        /\ products_list[i].sku = r.sku
                        /\ products_list[i].category = c.category_name
                        /\ products_list[i].subcategory = t.type_name
        /\ \A t \in Rows(db.product_types) :
              \E c \in Rows(db.categories) : c.category_id = t.category_id

C10_Witness ==
    /\ pc = "done"
    /\ \E q, r \in Rows(db.products) :
          /\ q.category_id # r.category_id
          /\ \E t, u \in Rows(db.product_types) :
                t.type_id = q.type_id /\ u.type_id = r.type_id /\ t.type_name = u.type_name

----------------------------------------------------------------------------
(* Order of the stages *)

\* the run generates the dataset: neither --show-stats nor --embeddings-only
Generating == ~args.show_stats /\ ~args.embeddings_only

\* <<stage, the stage whose rows it references>>, after the foreign keys
StageDependencies ==
    IF variant = "orm"
    THEN {<<"insert_customers", "insert_stores">>,
          <<"insert_inventory", "insert_stores">>,
          <<"insert_orders_and_items", "insert_stores">>,
          <<"insert_product_types", "insert_categories">>,
          <<"insert_products", "insert_product_types">>,
          <<"insert_products", "insert_suppliers">>,
          <<"populate_product_embeddings", "insert_products">>,
          <<"insert_inventory", "insert_products">>,
          <<"insert_orders_and_items", "insert_products">>,
          <<"insert_orders_and_items", "insert_customers">>}
    ELSE {<<"prep_insert_customers", "prep_insert_stores">>,
          <<"prep_insert_inventory", "prep_insert_stores">>,
          <<"prep_insert_orders", "prep_insert_stores">>,
          <<"prep_insert_product_types", "prep_insert_categories">>,
          <<"prep_insert_products", "prep_insert_product_types">>,
          <<"populate_product_description_embeddings", "prep_insert_products">>,
          <<"prep_insert_inventory", "prep_insert_products">>,
          <<"prep_insert_orders", "prep_insert_products">>,
          <<"prep_insert_orders", "prep_insert_customers">>}

\* C11: in a generation a stage starts only after every stage whose rows it
\* references has completed: stores before customers, inventory and orders;
\* categories before product types before products; suppliers before
\* products; products before embeddings, inventory and order items;
\* customers before orders.
C11_StagesInDependencyOrder ==
    Generating =>
        \A d \in StageDependencies :
            (pc = d[1] \/ d[1] \in Range(log)) => d[2] \in Range(log)

\* a generation of the ORM generator that ran every stage and wrote orders
\* with their items
C11_Witness ==
    /\ variant = "orm"
    /\ Generating
    /\ pc = "done"
    /\ db.order_items # <<>>
    /\ \A d \in StageDependencies : d[1] \in Range(log) /\ d[2] \in Range(log)

----------------------------------------------------------------------------
(* Configuration errors *)

\* C12: a run of a generation with a configuration error (a missing or
\* malformed reference document, a store with an empty or missing security
\* principal) ends in failure without any write: no step of it deletes the
\* prior artifact, creates a table or inserts a row.
C12_ConfigErrorWritesNothing ==
    [][(/\ Generating
        /\ \/ ~env.documents_ok
           \/ \E i \in DOMAIN stores : stores[i].rls_user_id = "") =>
            (db' = db /\ db_exists' = db_exists)]_vars

----------------------------------------------------------------------------
(* Exit status *)

\* the stages of a generation
AllStages ==
    IF variant = "orm"
    THEN {"insert_stores", "insert_categories", "insert_product_types", "insert_suppliers",
          "insert_products", "populate_product_embeddings", "insert_customers",
          "insert_inventory", "insert_orders_and_items", "insert_agent_support_data",
          "show_statistics"}
    ELSE {"prep_insert_stores", "prep_insert_categories", "prep_insert_product_types",
          "prep_insert_customers", "prep_insert_products",
          "populate_product_description_embeddings", "prep_insert_inventory",
          "prep_insert_orders", "show_database_stats"}

\* C13: every abnormal end (a loader failure, a failure in a population
\* stage, --show-stats or --embeddings-only without an artifact) terminates
\* the run with a non-zero status, and a run ends with status zero only if
\* every stage of it completed.
C13_ExitStatus ==
    /\ pc = "failed" => exit_status = 1
    /\ exit_status = 0 =>
          /\ pc = "done"
          /\ Generating => AllStages \subseteq Range(log)
    /\ pc = "done" => exit_status = 0
    /\ pc \notin {"failed", "done"} => exit_status = NoStatus

\* a generation whose stage raised after earlier stages had completed
C13_Witness ==
    /\ Generating
    /\ pc = "failed"
    /\ log # <<>>
    /\ exit_status = 1

----------------------------------------------------------------------------
(* Write errors *)

\* the tables a stage writes, one bulk insert each, in the order of its
\* bulk inserts
StageInserts(stage) ==
    CASE stage \in {"insert_stores", "prep_insert_stores"} -> <<"stores">>
      [] stage \in {"insert_categories", "prep_insert_categories"} -> <<"categories">>
      [] stage \in {"insert_product_types", "prep_insert_product_types"} -> <<"product_types">>
      [] stage = "insert_suppliers" ->
            <<"suppliers", "supplier_contracts", "supplier_performance">>
      [] stage \in {"insert_products", "prep_insert_products"} -> <<"products">>
      [] stage = "populate_product_embeddings" ->
            <<"product_image_embeddings", "product_description_embeddings">>
      [] stage = "populate_product_description_embeddings" ->
            <<"product_description_embeddings">>
      [] stage \in {"insert_customers", "prep_insert_customers"} -> <<"customers">>
      [] stage \in {"insert_inventory", "prep_insert_inventory"} -> <<"inventory">>
      [] stage \in {"insert_orders_and_items", "prep_insert_orders"} ->
            <<"orders", "order_items">>
      [] stage = "insert_agent_support_data" -> <<"approvers", "company_policies">>
      [] OTHER -> <<>>

\* the stage of the bulk insert that the write error hits
FaultStage ==
    CHOOSE stage \in AllStages : env.fault.insert \in Range(StageInserts(stage))

\* a generation into a fresh artifact has ended on the write error
FailedOnFault ==
    /\ Generating
    /\ env.fault # NoFault
    /\ pc = "failed"

\* no stage after the failed one has written anything
NoLaterStageRan ==
    \A stage \in AllStages \ (Range(log) \cup {FaultStage}) :
        \A t \in Range(StageInserts(stage)) : db[t] = <<>>

----------------------------------------------------------------------------
(* Chunks of the customers stage *)

\* C15: the customers stage commits after each chunk: when it fails while
\* writing chunk k, the customers of chunks 1..k-1 are in the artifact.
C15_EarlierChunksDurable ==
    (FailedOnFault /\ env.fault.insert = "customers") =>
        Len(db.customers) = (env.fault.chunk - 1) * batch_size

\* C15 as the code has it: the customers stage writes its chunks in one
\* transaction and commits once, after the last chunk: when it fails while
\* writing chunk k, no customer of the stage is in the artifact, and when
\* it completes, all of them are.
C15_ChunksCommittedTogether ==
    /\ (FailedOnFault /\ env.fault.insert = "customers") => db.customers = <<>>
    /\ (Generating /\ {"insert_customers", "prep_insert_customers"} \cap Range(log) # {}) =>
           Len(db.customers) = args.num_customers

\* the write of the second chunk failed, after a first, full chunk
C15_Witness ==
    /\ FailedOnFault
    /\ env.fault.insert = "customers"
    /\ env.fault.chunk = 2
    /\ args.num_customers > batch_size
    /\ db.customers = <<>>
    /\ db.stores # <<>>

----------------------------------------------------------------------------
(* Embeddings *)

\* the catalog entries that carry a description embedding
DescribedEntries ==
    {i \in DOMAIN products_list : products_list[i].description_embedding # <<>>}

\* the artifact was generated from the catalog: every entry has its product
GeneratedFromCatalog ==
    /\ db_exists
    /\ \A i \in DOMAIN products_list :
          sku_to_product_id(db.products, products_list[i].sku) # 0

\* C16: populate_embeddings_only with clear_existing = true is idempotent on
\* a generated artifact: after any number of calls the description
\* embeddings table holds exactly one row per catalog entry that carries an
\* embedding, and no call fails on the rows of an earlier one.
C16_EmbeddingsOnlyIdempotent ==
    (args.embeddings_only /\ env.documents_ok /\ GeneratedFromCatalog) =>
        /\ pc # "failed"
        /\ pc = "done" =>
              /\ Len(db.product_description_embeddings) = Cardinality(DescribedEntries)
              /\ \A i \in DescribedEntries :
                    \E r \in Rows(db.product_description_embeddings) :
                        /\ r.product_id = sku_to_product_id(db.products, products_list[i].sku)
                        /\ r.description_embedding = products_list[i].description_embedding

\* a run with --embeddings-only has completed on the artifact of a
\* generation whose catalog has an entry with and an entry without embedding
C16_Witness ==
    /\ args.embeddings_only
    /\ pc = "done"
    /\ GeneratedFromCatalog
    /\ db.product_types # <<>>
    /\ DescribedEntries # {}
    /\ DescribedEntries # DOMAIN products_list
    /\ Len(db.product_description_embeddings) = Cardinality(DescribedEntries)

\* the catalog entry of the SKU carries a vector of the kind
CatalogHasImage(sku) ==
    \E i \in DOMAIN products_list :
        products_list[i].sku = sku /\ products_list[i].image_embedding # <<>>

CatalogHasDescription(sku) ==
    \E i \in DOMAIN products_list :
        products_list[i].sku = sku /\ products_list[i].description_embedding # <<>>

\* C17: after the embeddings stage a product has an embedding row of a kind
\* (image, description) exactly when its catalog entry, matched by SKU,
\* carries a vector of that kind; a product without a catalog embedding has
\* no row, and causes no error.  The sqlite3 generator has the description
\* kind only.
C17_EmbeddingRowsMatchCatalog ==
    /\ ({"populate_product_embeddings", "populate_product_description_embeddings"}
            \cap Range(log) # {}) =>
          \A p \in Rows(db.products) :
              /\ variant = "orm" =>
                    ((\E r \in Rows(db.product_image_embeddings) : r.product_id = p.product_id)
                        <=> CatalogHasImage(p.sku))
              /\ (\E r \in Rows(db.product_description_embeddings) : r.product_id = p.product_id)
                     <=> CatalogHasDescription(p.sku)
    /\ ~(/\ pc = "failed"
          /\ env.fault = NoFault
          /\ log # <<>>
          /\ log[Len(log)] \in {"insert_products", "prep_insert_products"})

\* the stage has run over a product with an image vector only and a
\* product with a description vector only
C17_Witness ==
    /\ variant = "orm"
    /\ "populate_product_embeddings" \in Range(log)
    /\ pc = "insert_customers"
    /\ \E p, q \in Rows(db.products) :
          /\ CatalogHasImage(p.sku) /\ ~CatalogHasDescription(p.sku)
          /\ ~CatalogHasImage(q.sku) /\ CatalogHasDescription(q.sku)
    /\ Len(db.product_image_embeddings) = 1
    /\ Len(db.product_description_embeddings) = 1

----------------------------------------------------------------------------
(* Regeneration *)

\* C18: a generation deletes the artifact it finds before it creates the
\* schema and builds the dataset from empty: whatever the prior artifact
\* held, the tables hold the rows of this run only, numbered from 1, and a
\* completed run holds as many stores, customers and orders as it was
\* asked for.
C18_RebuiltFromEmpty ==
    (Generating /\ {"insert_stores", "prep_insert_stores"} \cap Range(log) # {}) =>
        /\ db_exists
        /\ Len(db.stores) = Len(stores)
        /\ \A i \in DOMAIN db.stores :
              db.stores[i].store_id = i /\ db.stores[i].store_name = stores[i].store_name
        /\ \A i \in DOMAIN db.products :
              /\ db.products[i].product_id = i
              /\ \E k \in DOMAIN products_list : products_list[k].sku = db.products[i].sku
        /\ Len(db.products) <= Len(products_list)
        /\ \A i \in DOMAIN db.customers : db.customers[i].customer_id = i
        /\ Len(db.customers) <= args.num_customers
        /\ \A i \in DOMAIN db.orders : db.orders[i].order_id = i
        /\ Len(db.orders) <= (IF variant = "orm" THEN args.num_orders ELSE MaxOrders)
        /\ Len(db.product_description_embeddings) <= Len(db.products)
        /\ \A r \in Rows(db.product_description_embeddings) :
              \E k \in DOMAIN products_list :
                  products_list[k].description_embedding = r.description_embedding
        /\ pc = "done" =>
              /\ Len(db.customers) = args.num_customers
              /\ variant = "orm" => Len(db.orders) = args.num_orders

\* a generation has completed over a populated artifact of an earlier run
C18_Witness ==
    /\ Generating
    /\ env.prior = "populated"
    /\ pc = "done"
    /\ db.stores # <<>>
    /\ db.customers # <<>>
    /\ db.orders # <<>>

----------------------------------------------------------------------------
(* Statistics *)

C20_ShowStatsReadOnly ==
    [][args.show_stats => (db' = db /\ db_exists' = db_exists)]_vars

\* the report of --show-stats has completed on a populated artifact
C20_Witness ==
    /\ args.show_stats
    /\ pc = "done"
    /\ exit_status = 0
    /\ db = PriorDB

----------------------------------------------------------------------------
(* Price, cost and supplier of a product *)

\* the products stage of the run has completed
ProductsWritten ==
    {"insert_products", "prep_insert_products"} \cap Range(log) # {}

\* C21: for every Product row, base_price equals the price of its catalog
\* entry, cost equals that price times 0.67 rounded to cents (so cost <=
\* base_price), and supplier_id equals the supplier id of the entry.
C21_CostFromPrice ==
    ProductsWritten =>
        \A p \in Rows(db.products) :
            \E i \in DOMAIN products_list :
                /\ products_list[i].sku = p.sku
                /\ p.base_price = products_list[i].price * CENT
                /\ p.cost % CENT = 0
                /\ 100 * p.cost - 67 * p.base_price \in (-50 * CENT)..(50 * CENT)
                /\ p.cost <= p.base_price
                /\ p.supplier_id = products_list[i].supplier_id

\* C21 as the code has it: the ORM generator takes the catalog price as the
\* base price and derives the cost, price times 0.67 rounded to cents, and
\* carries the supplier id; the sqlite3 generator takes the catalog price as
\* the cost, derives the base price, cost divided by 0.67 rounded to cents,
\* and stores no supplier.  In both, cost <= base_price.
C21_MarginPerGenerator ==
    ProductsWritten =>
        \A p \in Rows(db.products) :
            \E i \in DOMAIN products_list :
                /\ products_list[i].sku = p.sku
                /\ p.cost <= p.base_price
                /\ variant = "orm" =>
                      /\ p.base_price = products_list[i].price * CENT
                      /\ p.cost % CENT = 0
                      /\ 100 * p.cost - 67 * p.base_price \in (-50 * CENT)..(50 * CENT)
                      /\ p.supplier_id = products_list[i].supplier_id
                /\ variant = "prep" =>
                      /\ p.cost = products_list[i].price * CENT
                      /\ p.base_price % CENT = 0
                      /\ 2 * (67 * p.base_price - 100 * p.cost) \in (-67 * CENT)..(67 * CENT)
                      /\ p.supplier_id = NULL

\* the sqlite3 generator has completed with a product of catalog price
\* 9.99: cost 9.99, base price 14.91
C21_Witness ==
    /\ variant = "prep"
    /\ ProductsWritten
    /\ pc = "done"
    /\ \E p \in Rows(db.products) :
          p.cost = 999 * CENT /\ p.base_price = 1491 * CENT /\ p.supplier_id = NULL

----------------------------------------------------------------------------
(* Volumes *)

\* C23: a completed run of the volume-driven generator leaves exactly
\* num_customers Customer rows and exactly num_orders Order rows, for every
\* num_customers >= 1 and num_orders >= 0.
C23_VolumesAsAsked ==
    (variant = "orm" /\ Generating /\ pc = "done" /\ args.num_customers >= 1) =>
        /\ Len(db.customers) = args.num_customers
        /\ Cardinality(CustomerIds) = args.num_customers
        /\ Len(db.orders) = args.num_orders
        /\ Cardinality(OrderIds) = args.num_orders

\* a completed run that was asked for customers and for orders
C23_Witness ==
    /\ variant = "orm"
    /\ Generating
    /\ pc = "done"
    /\ args.num_customers >= 1
    /\ args.num_orders >= 1
    /\ Len(db.orders) = args.num_orders
    /\ Len(db.customers) = args.num_customers

----------------------------------------------------------------------------
(* Orders and their items *)

\* C24: after a completed run every Order owns between 1 and 5 OrderItems,
\* and each OrderItem references one Product and one Order of this run, in
\* the customer-driven mode as well as in the volume-driven mode.
C24_OrdersOwnItems ==
    (Generating /\ pc = "done") =>
        /\ \A o \in Rows(db.orders) :
              Cardinality({it \in Rows(db.order_items) : it.order_id = o.order_id}) \in 1..5
        /\ \A it \in Rows(db.order_items) :
              /\ Cardinality({o \in Rows(db.orders) : o.order_id = it.order_id}) = 1
              /\ Cardinality({p \in Rows(db.products) : p.product_id = it.product_id}) = 1

\* a completed run of the customer-driven generator with an order
C24_Witness ==
    /\ variant = "prep"
    /\ Generating
    /\ pc = "done"
    /\ db.orders # <<>>
    /\ \A o \in Rows(db.orders) : \E it \in Rows(db.order_items) : it.order_id = o.order_id

----------------------------------------------------------------------------
(* Primary store of a customer *)

\* the customers stage of the generation has completed
CustomersWritten ==
    Generating /\ {"insert_customers", "prep_insert_customers"} \cap Range(log) # {}

\* C25: every Customer row written by the customers stage has a non-null
\* primary store, which is the id of one Store row, and that store is one
\* the weighted sampler draws: the store of a configuration entry of
\* positive weight, not the default of the lookup.
C25_PrimaryStoreDrawn ==
    CustomersWritten =>
        \A c \in Rows(db.customers) :
            /\ c.primary_store_id # NULL
            /\ Cardinality({r \in Rows(db.stores) : r.store_id = c.primary_store_id}) = 1
            /\ \E r \in Rows(db.stores) :
                  /\ r.store_id = c.primary_store_id
                  /\ \E k \in DOMAIN stores :
                        /\ stores[k].store_name = r.store_name
                        /\ stores[k].customer_distribution_weight > 0

\* the first store has weight 0 and the second a positive weight: the
\* customers have the second as their primary store
C25_Witness ==
    /\ variant = "orm"
    /\ CustomersWritten
    /\ pc = "done"
    /\ Len(stores) = 2
    /\ stores[1].customer_distribution_weight = 0
    /\ db.customers # <<>>
    /\ \A c \in Rows(db.customers) : c.primary_store_id = db.stores[2].store_id

----------------------------------------------------------------------------
(* The weighted sampler *)

\* C26: the weighted sampler returns only a store of strictly positive
\* weight -- the primary store of a customer and, in the customer-driven
\* mode, the store of an order are what it returned -- and it fails when all
\* weights are zero: the customers stage, the first to call it, does not
\* complete, no customer is written and the run aborts with status 1.
C26_SamplerPositiveWeight ==
    Generating =>
        /\ \A x \in Rows(db.customers) \cup (IF variant = "prep" THEN Rows(db.orders) ELSE {}) :
              LET store_id == IF "primary_store_id" \in DOMAIN x
                              THEN x.primary_store_id ELSE x.store_id
              IN  \A r \in Rows(db.stores) :
                      r.store_id = store_id =>
                          \A k \in DOMAIN stores :
                              stores[k].store_name = r.store_name =>
                                  stores[k].customer_distribution_weight > 0
        /\ (WeightTotal = 0 /\ args.num_customers > 0) =>
              /\ ~CustomersWritten
              /\ db.customers = <<>>
              /\ pc # "done"
              /\ pc = "failed" => exit_status = 1

\* the run has failed in the customers stage, over stores that all have
\* weight 0
C26_Witness ==
    /\ Generating
    /\ stores # <<>>
    /\ WeightTotal = 0
    /\ args.num_customers > 0
    /\ pc = "failed"
    /\ exit_status = 1
    /\ log # <<>>
    /\ log[Len(log)] \in {"populate_product_embeddings", "prep_insert_product_types"}

----------------------------------------------------------------------------
(* Store of an order item *)

\* C28: in the artifact of a completed run the store_id of every OrderItem
\* is the store_id of the Order it belongs to, in the customer-driven mode
\* as well as in the volume-driven mode.
C28_ItemStoreIsOrderStore ==
    (Generating /\ pc = "done") =>
        \A it \in Rows(db.order_items) :
            \A o \in Rows(db.orders) :
                it.order_id = o.order_id => it.store_id = o.store_id

----------------------------------------------------------------------------
(* Stock transfers *)

\* the stock of the product at the store: the level of its row, 0 without
StockAt(inventory, store_id) ==
    LET i == LastIndex(inventory, LAMBDA r : /\ r.store_id = store_id
                                             /\ r.product_id = TransferProduct)
    IN  IF i = 0 THEN 0 ELSE inventory[i].stock_level

\* what the transfers that returned success have moved into the store
MovedInto(store_id) ==
    LET Quantity(c, field) ==
            IF calls[c].pc = "returned" /\ calls[c].success /\ calls[c].request[field] = store_id
            THEN calls[c].request.quantity ELSE 0
        RECURSIVE Sum(_)
        Sum(S) == IF S = {} THEN 0
                  ELSE LET c == CHOOSE x \in S : TRUE
                       IN  Quantity(c, "to_store_id") - Quantity(c, "from_store_id")
                               + Sum(S \ {c})
    IN  Sum(Calls)

\* C27: transfer_stock returns success false and leaves every Inventory row
\* as it is, creating no destination row, when the source and the
\* destination store are the same, when the quantity is not positive, when
\* the source store has no row of the product, and when the stock of the
\* source is smaller than the quantity.
C27_RejectedWithoutChange ==
    [][\A c \in Calls :
          (calls[c].pc # "returned" /\ calls'[c].pc = "returned") =>
              LET request == calls'[c].request
                  source == {r \in Rows(db.inventory) :
                                /\ r.store_id = request.from_store_id
                                /\ r.product_id = request.product_id}
              IN  (\/ request.from_store_id = request.to_store_id
                   \/ request.quantity <= 0
                   \/ source = {}
                   \/ \E r \in source : r.stock_level < request.quantity) =>
                      (~calls'[c].success /\ db' = db)]_vars

\* a request for more than the source holds, towards a store without a row
\* of the product, has been rejected
C27_Witness ==
    /\ pc = "serving"
    /\ \E c \in Calls :
          /\ calls[c].pc = "returned"
          /\ ~calls[c].success
          /\ calls[c].request.from_store_id # calls[c].request.to_store_id
          /\ calls[c].request.quantity > 0
          /\ calls[c].from_inventory # NULL
          /\ calls[c].from_inventory < calls[c].request.quantity
          /\ \A r \in Rows(db.inventory) : r.store_id # calls[c].request.to_store_id
    /\ db.inventory = inventory0

\* C29: over calls of transfer_stock executed one at a time, no stock level
\* is ever negative and every store holds what it held at the start plus
\* what the successful transfers moved into it and minus what they moved
\* out of it, the destination having a row from the first transfer on: the
\* total stock of the product never changes, and a transfer of q from A to
\* B followed by one of q from B to A restores both levels.
C29_StockConserved ==
    pc = "serving" =>
        /\ \A r \in Rows(db.inventory) : r.stock_level >= 0
        /\ Inventory_unique(db.inventory)
        /\ \A s \in TransferStores :
              StockAt(db.inventory, s) = StockAt(inventory0, s) + MovedInto(s)
        /\ \A c \in Calls :
              (calls[c].pc = "returned" /\ calls[c].success) =>
                  \E r \in Rows(db.inventory) :
                      /\ r.store_id = calls[c].request.to_store_id
                      /\ r.product_id = calls[c].request.product_id
        /\ \A c, d \in Calls :
              (/\ calls[c].pc = "returned" /\ calls[c].success
               /\ calls[d].pc = "returned" /\ calls[d].success
               /\ calls[c].request.from_store_id = calls[d].request.to_store_id
               /\ calls[c].request.to_store_id = calls[d].request.from_store_id
               /\ calls[c].request.quantity = calls[d].request.quantity) =>
                  \A s \in TransferStores :
                      StockAt(db.inventory, s) = StockAt(inventory0, s)

\* a transfer into a store without a row of the product, and the transfer
\* back, have both succeeded
C29_Witness ==
    /\ pc = "serving"
    /\ \A c \in Calls : calls[c].pc = "returned" /\ calls[c].success
    /\ calls[1].request.from_store_id = calls[2].request.to_store_id
    /\ calls[1].request.to_store_id = calls[2].request.from_store_id
    /\ calls[1].request.quantity = calls[2].request.quantity
    /\ Len(db.inventory) = Len(inventory0) + 1
    /\ \A s \in TransferStores : StockAt(db.inventory, s) = StockAt(inventory0, s)

\* C30: when calls of transfer_stock on the same product interleave, the
\* result is that of some one-at-a-time order: once the calls have
\* returned, no update is lost -- every store holds what it held at the
\* start plus what the successful transfers moved -- the total stock of the
\* product is conserved and no stock level is negative.
C30_InterleavedAsSerial ==
    (pc = "serving" /\ \A c \in Calls : calls[c].pc \in {"idle", "returned"}) =>
        /\ \A s \in TransferStores :
              StockAt(db.inventory, s) - MovedInto(s) = StockAt(inventory0, s)
        /\ \A r \in Rows(db.inventory) : r.stock_level >= 0

====
